---------------------------- MODULE Spec2Model ----------------------------
(***************************************************************************)
(* A model of apkparser's APK object (src/apkparser/apk.py).               *)
(*                                                                         *)
(* Strings are sequences of one-character strings, so that the code's      *)
(* string operations (value[0], find, startswith, slicing, +) are computed *)
(* and not assumed.  A value that may be None in the code is an option:    *)
(* None is the empty tuple and Some(v) the one-element tuple <<v>>, so the  *)
(* empty string Some(<<>>) and None stay distinct.                         *)
(***************************************************************************)
EXTENDS Integers, Sequences, FiniteSets, TLC

VARIABLES
    zip,                \* self.zip: the archive's entries, in central-directory order
    package,            \* self.package
    elems,              \* the manifest's activity / activity-alias elements, document order
    appIcon,            \* the manifest's application/@icon attribute
    targetSdkVersion,   \* the manifest's uses-sdk/@targetSdkVersion attribute
    minSdkVersion,      \* the manifest's uses-sdk/@minSdkVersion attribute
    permissions,        \* self.permissions
    uses_permissions,   \* self.uses_permissions
    resTable,           \* the icon resource's (density, file) candidates in resources.arsc
    app_icon,           \* self.app_icon
    resStrings,         \* the string resources of resources.arsc, package by package
    iconDoc,            \* the parsed document of the archive's XML icon file
    xmlEntry,           \* self.xml: "absent" (no manifest entry), "null" (unparsed), "tree",
                        \* "str" (replaced with its str() by __getstate__)
    valid_apk,          \* self.valid_apk
    apkFile,            \* the file's bytes around its entries: leading bytes, signing
                        \* block, archive comment
    signed_v2,          \* self._is_signed_v2
    v2_blocks,          \* self._v2_blocks: the (key, value) pairs read so far
    hashOrder,          \* the interpreter's iteration order of a set of names
    hasZip,             \* whether the object has its attribute zip
    frame,              \* the running call of the signing-block readers: the stream it
                        \* reads, its position, the certificates read so far
    ret                 \* the last call: operation, argument, returned value, raised error

vars == <<zip, package, elems, appIcon, targetSdkVersion, minSdkVersion,
          permissions, uses_permissions, resTable, app_icon, resStrings,
          iconDoc, xmlEntry, valid_apk, apkFile, signed_v2, v2_blocks, hashOrder,
          hasZip, frame, ret>>

apkFields == <<zip, package, elems, appIcon, targetSdkVersion, minSdkVersion,
               permissions, uses_permissions, resTable, app_icon, resStrings,
               iconDoc, xmlEntry, valid_apk, apkFile, signed_v2, v2_blocks, hashOrder,
               hasZip, frame>>

---------------------------------------------------------------------------
(* Bounds of the model.                                                    *)

MaxEntries == 3
MaxLen == 3
MaxElems == 2
MaxSdkLen == 2
MaxPerms == 2
MaxCands == 3

---------------------------------------------------------------------------
(* Options and strings.                                                    *)

None == <<>>

Some(v) == <<v>>

Val(o) == o[1]

RECURSIVE StringsUpTo(_, _)
StringsUpTo(alphabet, n) ==
    IF n = 0 THEN {<<>>}
    ELSE LET shorter == StringsUpTo(alphabet, n - 1)
         IN  shorter \cup {Append(s, c) : s \in {t \in shorter : Len(t) = n - 1}, c \in alphabet}

RECURSIVE SeqsUpTo(_, _)
SeqsUpTo(S, n) ==
    IF n = 0 THEN {<<>>}
    ELSE LET shorter == SeqsUpTo(S, n - 1)
         IN  shorter \cup {Append(s, e) : s \in {t \in shorter : Len(t) = n - 1}, e \in S}

NoCall == [op |-> "none", arg |-> None, val |-> None, exc |-> "none"]

Returned(op, arg, val) == [op |-> op, arg |-> arg, val |-> val, exc |-> "none"]

Raised(op, arg, exc) == [op |-> op, arg |-> arg, val |-> None, exc |-> exc]

---------------------------------------------------------------------------
(* The fields a specification does not exercise, as the constructor leaves *)
(* them for an archive without string resources, XML icon or signing       *)
(* block, whose manifest parsed.                                           *)

NoStrings == resStrings = <<>>

NoIconDocument ==
    iconDoc = [tag |-> "bitmap", attrib |-> <<>>, background |-> None, foreground |-> None]

ParsedManifest == xmlEntry = "tree" /\ valid_apk = TRUE

\* The object as __init__ leaves it: self.zip is the opened archive.
OpenArchive == hasZip = TRUE

\* No call of is_signed_v2 or get_certificates_der_v2 is under way.
Idle ==
    [pc |-> "idle", op |-> "none", buf |-> <<>>, pos |-> 0, stop |-> 0, from |-> 0,
     certificates |-> <<>>]

NoRunningCall == frame = Idle

UnsignedFile ==
    /\ apkFile = [prefix |-> <<>>, pairs |-> None, block |-> <<>>, comment |-> <<>>]
    /\ signed_v2 = None
    /\ v2_blocks = <<>>

---------------------------------------------------------------------------
(* The archive: zipfile.ZipFile as APK uses it.                            *)

ClassesDex == <<"c", "l", "a", "s", "s", "e", "s", ".", "d", "e", "x">>

ResourcesArsc == <<"r", "e", "s", "o", "u", "r", "c", "e", "s", ".", "a", "r", "s", "c">>

EntryNames == {ClassesDex, <<"a">>, <<"r", "/", "i">>}

AbsentName == <<"n", "o">>

EntryData == {<<>>, <<0>>, <<1>>}

Entries == [name : EntryNames, data : EntryData]

\* ZipFile.namelist(): every entry's name, duplicates included.
namelist(z) == [i \in 1..Len(z) |-> z[i].name]

HasEntry(z, filename) == \E i \in 1..Len(z) : z[i].name = filename

\* ZipFile.read(name): the name index keeps the last entry of a name.
ZipRead(z, filename) ==
    LET last == CHOOSE i \in 1..Len(z) :
                    /\ z[i].name = filename
                    /\ \A j \in (i + 1)..Len(z) : z[j].name # filename
    IN  z[last].data

\* A slip get_file could make: reading the first entry of the archive.
get_file_first(z, filename) ==
    IF HasEntry(z, filename)
    THEN Returned("get_file", filename, z[1].data)
    ELSE Raised("get_file", filename, "FileNotPresent")

get_file(z, filename) ==
    IF HasEntry(z, filename)
    THEN Returned("get_file", filename, ZipRead(z, filename))
    ELSE Raised("get_file", filename, "FileNotPresent")

get_dex(z) ==
    LET r == get_file(z, ClassesDex)
    IN  IF r.exc = "FileNotPresent"
        THEN Returned("get_dex", None, <<>>)
        ELSE Returned("get_dex", None, r.val)

GetFiles ==
    /\ ret' = IF hasZip THEN Returned("get_files", None, namelist(zip))
              ELSE Raised("get_files", None, "AttributeError")
    /\ UNCHANGED apkFields

GetFile ==
    \E filename \in EntryNames \cup {AbsentName} :
        /\ ret' = IF hasZip THEN get_file(zip, filename)
                  ELSE Raised("get_file", filename, "AttributeError")
        /\ UNCHANGED apkFields

GetDex ==
    /\ ret' = get_dex(zip)
    /\ UNCHANGED apkFields

InitArchive ==
    /\ zip \in SeqsUpTo(Entries, MaxEntries)
    /\ package = <<>>
    /\ elems = <<>>
    /\ appIcon = None
    /\ targetSdkVersion = None
    /\ minSdkVersion = None
    /\ permissions = <<>>
    /\ uses_permissions = <<>>
    /\ resTable = <<>>
    /\ app_icon = Some(<<>>)
    /\ hashOrder = <<>>
    /\ NoStrings
    /\ NoIconDocument
    /\ ParsedManifest
    /\ UnsignedFile
    /\ OpenArchive
    /\ NoRunningCall
    /\ ret = NoCall

NextArchive == GetFiles \/ GetFile \/ GetDex

SpecArchive == InitArchive /\ [][NextArchive]_vars

---------------------------------------------------------------------------
---------------------------------------------------------------------------
(* Component names: APK.format_value.                                      *)

Alphabet == {".", "a", "b"}

Packages == {<<>>, <<"p">>, <<"p", ".", "q">>}

\* str.find("."): the index of the first "." counted from 0, or -1.
RECURSIVE FindFrom(_, _)
FindFrom(value, i) ==
    IF i > Len(value) THEN -1
    ELSE IF value[i] = "." THEN i - 1
    ELSE FindFrom(value, i + 1)

find_dot(value) == FindFrom(value, 1)

\* A slip format_value could make: joining package and name without the dot.
format_value_nodot(pkg, value) ==
    IF Len(value) > 0
    THEN IF value[1] = "."
         THEN pkg \o value
         ELSE LET v_dot == find_dot(value)
              IN  IF v_dot = 0 THEN pkg \o <<".">> \o value
                  ELSE IF v_dot = -1 THEN pkg \o value
                  ELSE value
    ELSE value

format_value(pkg, value) ==
    IF Len(value) > 0
    THEN IF value[1] = "."
         THEN pkg \o value
         ELSE LET v_dot == find_dot(value)
              IN  IF v_dot = 0 THEN pkg \o <<".">> \o value
                  ELSE IF v_dot = -1 THEN pkg \o <<".">> \o value
                  ELSE value
    ELSE value

FormatValue ==
    \E value \in StringsUpTo(Alphabet, MaxLen) :
        /\ ret' = Returned("format_value", value, format_value(package, value))
        /\ UNCHANGED apkFields

InitFormat ==
    /\ package \in Packages
    /\ zip = <<>>
    /\ elems = <<>>
    /\ appIcon = None
    /\ targetSdkVersion = None
    /\ minSdkVersion = None
    /\ permissions = <<>>
    /\ uses_permissions = <<>>
    /\ resTable = <<>>
    /\ app_icon = Some(<<>>)
    /\ hashOrder = <<>>
    /\ NoStrings
    /\ NoIconDocument
    /\ ParsedManifest
    /\ UnsignedFile
    /\ OpenArchive
    /\ NoRunningCall
    /\ ret = NoCall

NextFormat == FormatValue

SpecFormat == InitFormat /\ [][NextFormat]_vars

---------------------------------------------------------------------------
(* C5: format_value(v) is package + v when v begins with ".", package +    *)
(* "." + v when v holds no ".", and v itself in every other case; the      *)
(* empty string is returned unchanged.                                     *)
C5_FormatValue ==
    ret.op = "format_value" =>
        LET v == ret.arg
        IN  /\ ret.exc = "none"
            /\ v = <<>> => ret.val = <<>>
            /\ (v # <<>> /\ Head(v) = ".") => ret.val = package \o v
            /\ (v # <<>> /\ \A i \in 1..Len(v) : v[i] # ".") =>
                    ret.val = package \o <<".">> \o v
            /\ (v # <<>> /\ Head(v) # "." /\ \E i \in 1..Len(v) : v[i] = ".") =>
                    ret.val = v

\* format_value has qualified a name without a dot with a non-empty package.
C5_Witness ==
    /\ ret.op = "format_value"
    /\ package = <<"p", ".", "q">>
    /\ ret.arg = <<"a", "b">>
    /\ ret.val = <<"p", ".", "q", ".", "a", "b">>

---------------------------------------------------------------------------
(* The manifest's activities: get_main_activity, get_activities,           *)
(* get_element.                                                            *)

ACTION_MAIN == "android.intent.action.MAIN"

CATEGORY_LAUNCHER == "android.intent.category.LAUNCHER"

FalseStr == <<"f", "a", "l", "s", "e">>

TrueStr == <<"t", "r", "u", "e">>

ActivityNames == {<<".", "a">>, <<"b">>}

\* An activity or activity-alias element: its tag, its name, enabled and icon
\* attributes, and the names of the action and category elements below it.
Elements ==
    [tag : {"activity", "activity-alias"},
     name : {Some(n) : n \in ActivityNames},
     enabled : {None, Some(TrueStr), Some(FalseStr)},
     actions : {{}, {ACTION_MAIN}},
     categories : {{}, {CATEGORY_LAUNCHER}},
     icon : {None}]

\* Element.findall(".//" + tag_name): the elements of a tag, in document order.
findall(xml, tag_name) == SelectSeq(xml, LAMBDA item : item.tag = tag_name)

\* The orders a finite set can be iterated in, as sequences.
SetOrders(S) ==
    {p \in [1..Cardinality(S) -> S] : \A e \in S : \E i \in 1..Cardinality(S) : p[i] = e}

\* set.pop(): the element the interpreter's set order puts first.
SetPop(order, z) ==
    LET first == CHOOSE i \in 1..Len(order) :
                    /\ order[i] \in z
                    /\ \A j \in 1..(i - 1) : order[j] \notin z
    IN  order[first]

IsDisabled(item) ==
    /\ item.enabled # None
    /\ Val(item.enabled) # <<>>
    /\ Val(item.enabled) = FalseStr

\* The sets x and y that get_main_activity collects, and their intersection.
MainNames(xml) ==
    LET activities_and_aliases == findall(xml, "activity") \o findall(xml, "activity-alias")
        live == {i \in 1..Len(activities_and_aliases) : ~ IsDisabled(activities_and_aliases[i])}
        x == {activities_and_aliases[i].name :
                i \in {j \in live : ACTION_MAIN \in activities_and_aliases[j].actions}}
        y == {activities_and_aliases[i].name :
                i \in {j \in live : CATEGORY_LAUNCHER \in activities_and_aliases[j].categories}}
    IN  x \cap y

\* The name get_main_activity returns (an option), or the error it raises.
get_main_activity(pkg, xml, order) ==
    LET z == MainNames(xml)
    IN  IF Cardinality(z) > 0
        THEN LET name == SetPop(order, z)
             IN  IF name = None
                 THEN Raised("get_main_activity", None, "TypeError")
                 ELSE Returned("get_main_activity", None, Some(format_value(pkg, Val(name))))
        ELSE Returned("get_main_activity", None, None)

\* get_elements(tag_name, "name"): the formatted names of a tag's elements that have one.
get_elements(pkg, xml, tag_name) ==
    LET items == findall(xml, tag_name)
        named == SelectSeq(items, LAMBDA item : item.name # None /\ Val(item.name) # <<>>)
    IN  [i \in 1..Len(named) |-> format_value(pkg, Val(named[i].name))]

get_activities(pkg, xml) == get_elements(pkg, xml, "activity")

\* A call that reaches self.xml[i].findall: on an unparsed manifest self.xml[i] is
\* None and the attribute access raises.
OnManifest(entry, op, result) ==
    IF entry = "str" THEN Raised(op, None, "TypeError")
    ELSE IF entry = "null" THEN Raised(op, None, "AttributeError")
    ELSE result

GetMainActivity ==
    /\ ret' = OnManifest(xmlEntry, "get_main_activity",
                         get_main_activity(package, elems, hashOrder))
    /\ UNCHANGED apkFields

GetActivities ==
    /\ ret' = OnManifest(xmlEntry, "get_activities",
                         Returned("get_activities", None, get_activities(package, elems)))
    /\ UNCHANGED apkFields

InitManifest ==
    /\ package \in {<<"p">>}
    /\ elems \in SeqsUpTo(Elements, MaxElems)
    /\ hashOrder \in SetOrders({Some(n) : n \in ActivityNames})
    /\ zip = <<>>
    /\ appIcon = None
    /\ targetSdkVersion = None
    /\ minSdkVersion = None
    /\ permissions = <<>>
    /\ uses_permissions = <<>>
    /\ resTable = <<>>
    /\ app_icon = Some(<<>>)
    /\ NoStrings
    /\ NoIconDocument
    /\ ParsedManifest
    /\ UnsignedFile
    /\ OpenArchive
    /\ NoRunningCall
    /\ ret = NoCall

NextManifest == GetMainActivity \/ GetActivities

SpecManifest == InitManifest /\ [][NextManifest]_vars

\* An element that is not disabled and declares both MAIN and LAUNCHER.
IsLauncher(item) ==
    /\ ~ (item.enabled = Some(FalseStr))
    /\ ACTION_MAIN \in item.actions
    /\ CATEGORY_LAUNCHER \in item.categories

---------------------------------------------------------------------------
(* C2: get_main_activity() is null if and only if no activity or           *)
(* activity-alias that is not disabled declares both the MAIN action and   *)
(* the LAUNCHER category; two elements that share a name and declare one   *)
(* of the two each do not make it non-null.                                *)
C2_MainActivityNullIff ==
    ret.op = "get_main_activity" =>
        /\ ret.exc = "none"
        /\ (ret.val = None) <=> ~ \E i \in 1..Len(elems) : IsLauncher(elems[i])

---------------------------------------------------------------------------
(* C3: a non-null get_main_activity() is an element of get_activities(),   *)
(* also when an activity-alias declares the launcher entry.                *)
C3_MainActivityInActivities ==
    (ret.op = "get_main_activity" /\ ret.exc = "none" /\ ret.val # None) =>
        \E i \in 1..Len(get_activities(package, elems)) :
            get_activities(package, elems)[i] = Val(ret.val)

---------------------------------------------------------------------------
(* C4: with several launcher elements get_main_activity() returns the      *)
(* first of them in document order, whatever the interpreter's set order.  *)
C4_MainActivityFirstInDocument ==
    (ret.op = "get_main_activity" /\ \E i \in 1..Len(elems) : IsLauncher(elems[i])) =>
        LET first == CHOOSE i \in 1..Len(elems) :
                        /\ IsLauncher(elems[i])
                        /\ \A j \in 1..(i - 1) : ~ IsLauncher(elems[j])
        IN  ret.val = Some(format_value(package, Val(elems[first].name)))

---------------------------------------------------------------------------
(* uses-sdk: get_effective_target_sdk_version.                             *)

SdkAlphabet == {"-", "0", "1", "3", "a"}

Digits == {"0", "1", "2", "3", "4", "5", "6", "7", "8", "9"}

DigitVal(c) ==
    CASE c = "0" -> 0 [] c = "1" -> 1 [] c = "2" -> 2 [] c = "3" -> 3 [] c = "4" -> 4
      [] c = "5" -> 5 [] c = "6" -> 6 [] c = "7" -> 7 [] c = "8" -> 8 [] c = "9" -> 9

RECURSIVE DecimalValue(_)
DecimalValue(digits) ==
    IF digits = <<>> THEN 0
    ELSE 10 * DecimalValue(SubSeq(digits, 1, Len(digits) - 1)) + DigitVal(digits[Len(digits)])

IsDecimal(s) == Len(s) > 0 /\ \A i \in 1..Len(s) : s[i] \in Digits

\* int(s) of a str: an optional sign and at least one digit, else ValueError.
IntParses(s) ==
    IF Len(s) > 0 /\ s[1] \in {"-", "+"} THEN IsDecimal(Tail(s)) ELSE IsDecimal(s)

IntOf(s) ==
    IF s[1] = "-" THEN 0 - DecimalValue(Tail(s))
    ELSE IF s[1] = "+" THEN DecimalValue(Tail(s))
    ELSE DecimalValue(s)

\* Python's "not v" of an optional string.
Falsy(o) == o = None \/ Val(o) = <<>>

\* int(None) raises TypeError and int of a malformed string ValueError: both give 1.
get_effective_target_sdk_version(target, min) ==
    LET target_sdk_version == IF Falsy(target) THEN min ELSE target
    IN  IF target_sdk_version # None /\ IntParses(Val(target_sdk_version))
        THEN IntOf(Val(target_sdk_version))
        ELSE 1

GetEffectiveTargetSdkVersion ==
    /\ ret' = Returned("get_effective_target_sdk_version", None,
                       get_effective_target_sdk_version(targetSdkVersion, minSdkVersion))
    /\ UNCHANGED apkFields

SdkValues == {None} \cup {Some(v) : v \in StringsUpTo(SdkAlphabet, MaxSdkLen)}

InitSdk ==
    /\ targetSdkVersion \in SdkValues
    /\ minSdkVersion \in SdkValues
    /\ zip = <<>>
    /\ package = <<>>
    /\ elems = <<>>
    /\ appIcon = None
    /\ permissions = <<>>
    /\ uses_permissions = <<>>
    /\ resTable = <<>>
    /\ app_icon = Some(<<>>)
    /\ hashOrder = <<>>
    /\ NoStrings
    /\ NoIconDocument
    /\ ParsedManifest
    /\ UnsignedFile
    /\ OpenArchive
    /\ NoRunningCall
    /\ ret = NoCall

NextSdk == GetEffectiveTargetSdkVersion

SpecSdk == InitSdk /\ [][NextSdk]_vars

---------------------------------------------------------------------------
(* C6: get_effective_target_sdk_version() is an integer >= 1 whatever the  *)
(* values of targetSdkVersion and minSdkVersion.                           *)
C6_EffectiveTargetAtLeastOne ==
    ret.op = "get_effective_target_sdk_version" => (ret.exc = "none" /\ ret.val >= 1)

---------------------------------------------------------------------------
(* C7: get_effective_target_sdk_version() is targetSdkVersion when that is *)
(* present and parses as an integer, else minSdkVersion when that parses   *)
(* (also when targetSdkVersion is present but does not parse), else 1.     *)
C7_EffectiveTargetFallback ==
    ret.op = "get_effective_target_sdk_version" =>
        ret.val = IF targetSdkVersion # None /\ IntParses(Val(targetSdkVersion))
                  THEN IntOf(Val(targetSdkVersion))
                  ELSE IF minSdkVersion # None /\ IntParses(Val(minSdkVersion))
                  THEN IntOf(Val(minSdkVersion))
                  ELSE 1

---------------------------------------------------------------------------
(* uses-permission: _apk_analysis and get_uses_implied_permission_list.    *)

READ_CALL_LOG == "android.permission.READ_CALL_LOG"

READ_CONTACTS == "android.permission.READ_CONTACTS"

READ_EXTERNAL_STORAGE == "android.permission.READ_EXTERNAL_STORAGE"

READ_PHONE_STATE == "android.permission.READ_PHONE_STATE"

WRITE_CALL_LOG == "android.permission.WRITE_CALL_LOG"

WRITE_CONTACTS == "android.permission.WRITE_CONTACTS"

WRITE_EXTERNAL_STORAGE == "android.permission.WRITE_EXTERNAL_STORAGE"

PermissionNames ==
    {READ_CALL_LOG, READ_CONTACTS, READ_EXTERNAL_STORAGE, READ_PHONE_STATE,
     WRITE_CALL_LOG, WRITE_CONTACTS, WRITE_EXTERNAL_STORAGE}

\* A uses-permission element: its name and its maxSdkVersion attribute.
UsesPermissionItems ==
    [name : PermissionNames, maxSdkVersion : {None, Some(<<"1", "3">>), Some(<<"a">>)}]

\* _apk_analysis: int(item.get("maxSdkVersion")), None on ValueError and TypeError.
AnalysedMaxSdk(attr) ==
    IF attr # None /\ IntParses(Val(attr)) THEN Some(IntOf(Val(attr))) ELSE None

\* _apk_analysis: the permissions and uses_permissions lists of the manifest's items.
AnalysedPermissions(items) == [i \in 1..Len(items) |-> items[i].name]

AnalysedUsesPermissions(items) ==
    [i \in 1..Len(items) |-> <<items[i].name, AnalysedMaxSdk(items[i].maxSdkVersion)>>]

InList(e, list) == \E i \in 1..Len(list) : list[i] = e

\* The version of the first [name, version] pair of a name, None without one.
FirstVersion(pairs, name) ==
    IF \E i \in 1..Len(pairs) : pairs[i][1] = name
    THEN LET first == CHOOSE i \in 1..Len(pairs) :
                        /\ pairs[i][1] = name
                        /\ \A j \in 1..(i - 1) : pairs[j][1] # name
         IN  pairs[first][2]
    ELSE None

\* A slip the function could make: implying READ_EXTERNAL_STORAGE without looking
\* whether it is requested.
get_uses_implied_permission_list_unchecked(target_sdk_version, perms, uses_perms) ==
    LET implied_WRITE_EXTERNAL_STORAGE ==
            target_sdk_version < 4 /\ ~ InList(WRITE_EXTERNAL_STORAGE, perms)
        implied1 ==
            IF implied_WRITE_EXTERNAL_STORAGE THEN << <<WRITE_EXTERNAL_STORAGE, None>> >> ELSE <<>>
        implied2 ==
            IF target_sdk_version < 4 /\ ~ InList(READ_PHONE_STATE, perms)
            THEN Append(implied1, <<READ_PHONE_STATE, None>>)
            ELSE implied1
        implied3 ==
            IF InList(WRITE_EXTERNAL_STORAGE, perms) \/ implied_WRITE_EXTERNAL_STORAGE
            THEN Append(implied2,
                        <<READ_EXTERNAL_STORAGE, FirstVersion(uses_perms, WRITE_EXTERNAL_STORAGE)>>)
            ELSE implied2
        implied4 ==
            IF /\ target_sdk_version < 16
               /\ InList(READ_CONTACTS, perms)
               /\ ~ InList(READ_CALL_LOG, perms)
            THEN Append(implied3, <<READ_CALL_LOG, None>>)
            ELSE implied3
        implied5 ==
            IF /\ target_sdk_version < 16
               /\ InList(WRITE_CONTACTS, perms)
               /\ ~ InList(WRITE_CALL_LOG, perms)
            THEN Append(implied4, <<WRITE_CALL_LOG, None>>)
            ELSE implied4
    IN  implied5

\* The implied list, built in the order of the function's appends.
get_uses_implied_permission_list(target_sdk_version, perms, uses_perms) ==
    LET implied_WRITE_EXTERNAL_STORAGE ==
            target_sdk_version < 4 /\ ~ InList(WRITE_EXTERNAL_STORAGE, perms)
        implied1 ==
            IF implied_WRITE_EXTERNAL_STORAGE THEN << <<WRITE_EXTERNAL_STORAGE, None>> >> ELSE <<>>
        implied2 ==
            IF target_sdk_version < 4 /\ ~ InList(READ_PHONE_STATE, perms)
            THEN Append(implied1, <<READ_PHONE_STATE, None>>)
            ELSE implied1
        implied3 ==
            IF /\ InList(WRITE_EXTERNAL_STORAGE, perms) \/ implied_WRITE_EXTERNAL_STORAGE
               /\ ~ InList(READ_EXTERNAL_STORAGE, perms)
            THEN Append(implied2,
                        <<READ_EXTERNAL_STORAGE, FirstVersion(uses_perms, WRITE_EXTERNAL_STORAGE)>>)
            ELSE implied2
        implied4 ==
            IF /\ target_sdk_version < 16
               /\ InList(READ_CONTACTS, perms)
               /\ ~ InList(READ_CALL_LOG, perms)
            THEN Append(implied3, <<READ_CALL_LOG, None>>)
            ELSE implied3
        implied5 ==
            IF /\ target_sdk_version < 16
               /\ InList(WRITE_CONTACTS, perms)
               /\ ~ InList(WRITE_CALL_LOG, perms)
            THEN Append(implied4, <<WRITE_CALL_LOG, None>>)
            ELSE implied4
    IN  implied5

GetUsesImpliedPermissionList ==
    /\ ret' = Returned("get_uses_implied_permission_list", None,
                       get_uses_implied_permission_list(
                           get_effective_target_sdk_version(targetSdkVersion, minSdkVersion),
                           permissions, uses_permissions))
    /\ UNCHANGED apkFields

GetPermissions ==
    /\ ret' = Returned("get_permissions", None, permissions)
    /\ UNCHANGED apkFields

PermissionTargets == {None, Some(<<"3">>), Some(<<"1", "3">>), Some(<<"3", "0">>)}

InitPermissions ==
    /\ targetSdkVersion \in PermissionTargets
    /\ minSdkVersion = None
    /\ \E items \in SeqsUpTo(UsesPermissionItems, MaxPerms) :
        /\ permissions = AnalysedPermissions(items)
        /\ uses_permissions = AnalysedUsesPermissions(items)
    /\ zip = <<>>
    /\ package = <<>>
    /\ elems = <<>>
    /\ appIcon = None
    /\ resTable = <<>>
    /\ app_icon = Some(<<>>)
    /\ hashOrder = <<>>
    /\ NoStrings
    /\ NoIconDocument
    /\ ParsedManifest
    /\ UnsignedFile
    /\ OpenArchive
    /\ NoRunningCall
    /\ ret = NoCall

NextPermissions == GetUsesImpliedPermissionList \/ GetPermissions

SpecPermissions == InitPermissions /\ [][NextPermissions]_vars

ImpliedNames(list) == {list[i][1] : i \in 1..Len(list)}

---------------------------------------------------------------------------
(* C8: with an effective target SDK below 4 the implied list holds         *)
(* WRITE_EXTERNAL_STORAGE and READ_PHONE_STATE unless requested; with      *)
(* WRITE_EXTERNAL_STORAGE requested or implied and READ_EXTERNAL_STORAGE   *)
(* not requested it holds READ_EXTERNAL_STORAGE; it holds no requested     *)
(* permission and no permission twice.                                     *)
C8_ImpliedPermissions ==
    ret.op = "get_uses_implied_permission_list" =>
        LET target == get_effective_target_sdk_version(targetSdkVersion, minSdkVersion)
            requested == {permissions[i] : i \in 1..Len(permissions)}
            implied == ImpliedNames(ret.val)
        IN  /\ ret.exc = "none"
            /\ (target < 4 /\ WRITE_EXTERNAL_STORAGE \notin requested) =>
                    WRITE_EXTERNAL_STORAGE \in implied
            /\ (target < 4 /\ READ_PHONE_STATE \notin requested) =>
                    READ_PHONE_STATE \in implied
            /\ (/\ WRITE_EXTERNAL_STORAGE \in requested \cup implied
                /\ READ_EXTERNAL_STORAGE \notin requested) =>
                    READ_EXTERNAL_STORAGE \in implied
            /\ implied \cap requested = {}
            /\ \A i, j \in 1..Len(ret.val) : ret.val[i][1] = ret.val[j][1] => i = j

\* Target 3 and no storage permission requested: the three permissions are implied.
C8_Witness ==
    /\ ret.op = "get_uses_implied_permission_list"
    /\ targetSdkVersion = Some(<<"3">>)
    /\ permissions = <<READ_CONTACTS>>
    /\ ImpliedNames(ret.val) =
         {WRITE_EXTERNAL_STORAGE, READ_PHONE_STATE, READ_EXTERNAL_STORAGE, READ_CALL_LOG}

---------------------------------------------------------------------------
(* C9: an implied permission derived from a requested one carries that     *)
(* permission's maxSdkVersion: READ_EXTERNAL_STORAGE that of               *)
(* WRITE_EXTERNAL_STORAGE, READ_CALL_LOG and WRITE_CALL_LOG that of        *)
(* READ_CONTACTS and WRITE_CONTACTS.                                       *)
C9_ImpliedCarriesMaxSdk ==
    ret.op = "get_uses_implied_permission_list" =>
        LET Carries(derived, origin) ==
                \A i \in 1..Len(ret.val) :
                    (ret.val[i][1] = derived /\ InList(origin, permissions)) =>
                        \E j \in 1..Len(uses_permissions) :
                            /\ uses_permissions[j][1] = origin
                            /\ uses_permissions[j][2] = ret.val[i][2]
        IN  /\ Carries(READ_EXTERNAL_STORAGE, WRITE_EXTERNAL_STORAGE)
            /\ Carries(READ_CALL_LOG, READ_CONTACTS)
            /\ Carries(WRITE_CALL_LOG, WRITE_CONTACTS)

---------------------------------------------------------------------------
(* The application icon: get_element, get_android_resources,               *)
(* _resolve_icon_resource, get_icon.                                       *)

HexDigits ==
    {"0", "1", "2", "3", "4", "5", "6", "7", "8", "9",
     "a", "b", "c", "d", "e", "f", "A", "B", "C", "D", "E", "F"}

HexVal(c) ==
    CASE c \in Digits -> DigitVal(c)
      [] c \in {"a", "A"} -> 10 [] c \in {"b", "B"} -> 11 [] c \in {"c", "C"} -> 12
      [] c \in {"d", "D"} -> 13 [] c \in {"e", "E"} -> 14 [] c \in {"f", "F"} -> 15

\* int(res, 16) of a str of hexadecimal digits; anything else raises ValueError.
HexParses(res) == Len(res) > 0 /\ \A i \in 1..Len(res) : res[i] \in HexDigits

RECURSIVE HexOf(_)
HexOf(res) ==
    IF res = <<>> THEN 0
    ELSE 16 * HexOf(SubSeq(res, 1, Len(res) - 1)) + HexVal(res[Len(res)])

\* The resource reference of the icon, and one that names no entry.
IconRef == <<"@", "7", "F">>

OtherRef == <<"@", "1">>

IconFile == <<"i", ".", "p">>

DensityFiles == {<<"d">>, <<"h">>, <<"x">>}

Densities == {0, 240, 480}

\* A candidate of the resource table: a config's density and the file it names.
Candidates == [density : Densities, file : DensityFiles]

MaxDpis == {0, 120, 240, 320, 65536}

\* ARSCParser.get_resolved_res_configs(res_id): the (config, file) pairs of an id,
\* none for an id without entries.
get_resolved_res_configs(table, res_id) ==
    IF res_id = HexOf(Tail(IconRef)) THEN table ELSE <<>>

\* The loop of _resolve_icon_resource from candidate i on.
RECURSIVE SelectFrom(_, _, _, _, _)
SelectFrom(candidates, i, res, current_dpi, max_dpi) ==
    IF i > Len(candidates) THEN res
    ELSE LET dpi == candidates[i].density
         IN  IF current_dpi < dpi /\ dpi <= max_dpi
             THEN SelectFrom(candidates, i + 1, Some(candidates[i].file), dpi, max_dpi)
             ELSE SelectFrom(candidates, i + 1, res, current_dpi, max_dpi)

\* A slip the loop could make: a candidate of equal density replaces the current one.
RECURSIVE SelectFromLast(_, _, _, _, _)
SelectFromLast(candidates, i, res, current_dpi, max_dpi) ==
    IF i > Len(candidates) THEN res
    ELSE LET dpi == candidates[i].density
         IN  IF current_dpi <= dpi /\ dpi <= max_dpi
             THEN SelectFromLast(candidates, i + 1, Some(candidates[i].file), dpi, max_dpi)
             ELSE SelectFromLast(candidates, i + 1, res, current_dpi, max_dpi)

resolve_icon_resource_last(z, table, res, max_dpi) ==
    IF ~ HexParses(res) THEN [exc |-> "ValueError", val |-> None]
    ELSE IF ~ HasEntry(z, ResourcesArsc) THEN [exc |-> "AttributeError", val |-> None]
    ELSE [exc |-> "none",
          val |-> SelectFromLast(get_resolved_res_configs(table, HexOf(res)), 1, None, -1, max_dpi)]

\* _resolve_icon_resource: the file it returns (an option), or the error it raises.
\* get_android_resources() is None for an archive without resources.arsc.
resolve_icon_resource(z, table, res, max_dpi) ==
    IF ~ HexParses(res) THEN [exc |-> "ValueError", val |-> None]
    ELSE IF ~ HasEntry(z, ResourcesArsc) THEN [exc |-> "AttributeError", val |-> None]
    ELSE [exc |-> "none",
          val |-> SelectFrom(get_resolved_res_configs(table, HexOf(res)), 1, None, -1, max_dpi)]

\* get_element("activity", "icon", name=val): the icon of the first activity element
\* whose name attribute equals val and that has an icon.
get_element_activity_icon(xml, val) ==
    LET tag == findall(xml, "activity")
        found == SelectSeq(tag, LAMBDA item : item.name = val /\ item.icon # None)
    IN  IF Len(tag) = 0 \/ Len(found) = 0 THEN None ELSE found[1].icon

\* The value get_icon starts from: the cached app_icon, or the manifest's.
IconToResolve(cached, pkg, xml, icon, order) ==
    IF ~ Falsy(cached) THEN [exc |-> "none", val |-> cached]
    ELSE IF ~ Falsy(icon) THEN [exc |-> "none", val |-> icon]
    ELSE LET main == get_main_activity(pkg, xml, order)
         IN  IF main.exc # "none" THEN [exc |-> main.exc, val |-> cached]
             ELSE [exc |-> "none", val |-> get_element_activity_icon(xml, main.val)]

\* get_icon(max_dpi): the field app_icon it leaves, and what it returns or raises.
\* get_element passes over an unparsed manifest; get_main_activity does not.
get_icon(cached, entry, pkg, xml, icon, order, z, table, max_dpi) ==
    LET start == IF Falsy(cached) /\ entry = "null"
                 THEN [exc |-> "AttributeError", val |-> cached]
                 ELSE IconToResolve(cached, pkg, xml, icon, order)
    IN  IF start.exc # "none"
        THEN [app_icon |-> cached, exc |-> start.exc, val |-> None]
        ELSE IF start.val = None
        THEN [app_icon |-> None, exc |-> "AttributeError", val |-> None]
        ELSE IF Len(Val(start.val)) > 0 /\ Val(start.val)[1] = "@"
        THEN LET r == resolve_icon_resource(z, table, Tail(Val(start.val)), max_dpi)
             IN  IF r.exc # "none"
                 THEN [app_icon |-> start.val, exc |-> r.exc, val |-> None]
                 ELSE IF Falsy(r.val)
                 THEN [app_icon |-> r.val, exc |-> "Exception", val |-> None]
                 ELSE [app_icon |-> r.val, exc |-> "none", val |-> r.val]
        ELSE IF Falsy(start.val)
        THEN [app_icon |-> start.val, exc |-> "Exception", val |-> None]
        ELSE [app_icon |-> start.val, exc |-> "none", val |-> start.val]

GetIcon ==
    \E max_dpi \in MaxDpis :
        LET r == get_icon(app_icon, xmlEntry, package, elems, appIcon, hashOrder,
                          zip, resTable, max_dpi)
        IN  /\ app_icon' = r.app_icon
            /\ ret' = IF r.exc # "none"
                      THEN Raised("get_icon", max_dpi, r.exc)
                      ELSE Returned("get_icon", max_dpi, r.val)
            /\ UNCHANGED <<resStrings, iconDoc, xmlEntry, valid_apk, apkFile, signed_v2,
                           v2_blocks>>
            /\ UNCHANGED <<zip, package, elems, appIcon, targetSdkVersion, minSdkVersion,
                           permissions, uses_permissions, resTable, hashOrder, hasZip, frame>>

InitIcon ==
    /\ appIcon \in {None, Some(IconRef), Some(OtherRef), Some(IconFile)}
    /\ \/ /\ zip = <<[name |-> ResourcesArsc, data |-> <<>>]>>
          /\ resTable \in SeqsUpTo(Candidates, MaxCands)
       \/ /\ zip = <<>>
          /\ resTable = <<>>
    /\ package = <<"p">>
    /\ elems = <<>>
    /\ hashOrder = <<>>
    /\ targetSdkVersion = None
    /\ minSdkVersion = None
    /\ permissions = <<>>
    /\ uses_permissions = <<>>
    /\ app_icon = Some(<<>>)
    /\ NoStrings
    /\ NoIconDocument
    /\ ParsedManifest
    /\ UnsignedFile
    /\ OpenArchive
    /\ NoRunningCall
    /\ ret = NoCall

NextIcon == GetIcon

SpecIcon == InitIcon /\ [][NextIcon]_vars

---------------------------------------------------------------------------
(* C10: a get_icon(max_dpi) call that resolves an icon attribute @HEXID    *)
(* returns the file of the candidate whose density is the largest density  *)
(* <= max_dpi; a density-0 candidate is eligible for every max_dpi >= 0;   *)
(* among candidates of that density the earliest in entry order is taken.  *)
C10_IconLargestDensity ==
    [][(/\ ret'.op = "get_icon"
        /\ Falsy(app_icon)
        /\ appIcon # None
        /\ Len(Val(appIcon)) > 1
        /\ Head(Val(appIcon)) = "@"
        /\ HasEntry(zip, ResourcesArsc)) =>
            LET candidates == get_resolved_res_configs(resTable, HexOf(Tail(Val(appIcon))))
                eligible == {i \in 1..Len(candidates) : candidates[i].density <= ret'.arg}
            IN  eligible # {} =>
                    /\ ret'.exc = "none"
                    /\ \E i \in eligible :
                        /\ \A j \in eligible : candidates[j].density <= candidates[i].density
                        /\ \A j \in 1..(i - 1) : candidates[j].density # candidates[i].density
                        /\ ret'.val = Some(candidates[i].file)]_vars

\* get_icon(320) has returned the earlier of two 240-dpi candidates, a 480-dpi one
\* lying between them.
C10_Witness ==
    /\ ret.op = "get_icon"
    /\ ret.arg = 320
    /\ appIcon = Some(IconRef)
    /\ resTable = <<[density |-> 240, file |-> <<"h">>],
                    [density |-> 480, file |-> <<"x">>],
                    [density |-> 240, file |-> <<"d">>]>>
    /\ ret.exc = "none"
    /\ ret.val = Some(<<"h">>)

\* The candidate the resource table holds for max_dpi: the earliest one of the
\* largest density <= max_dpi.
IsBestCandidate(candidates, i, max_dpi) ==
    /\ i \in 1..Len(candidates)
    /\ candidates[i].density <= max_dpi
    /\ \A j \in 1..Len(candidates) :
        candidates[j].density <= max_dpi => candidates[j].density <= candidates[i].density
    /\ \A j \in 1..(i - 1) : candidates[j].density # candidates[i].density

---------------------------------------------------------------------------
(* C11: on one APK object get_icon(max_dpi) depends only on the archive    *)
(* and on max_dpi: whatever calls came before, it returns the candidate    *)
(* for its own max_dpi.                                                    *)
C11_IconIndependentOfHistory ==
    (/\ ret.op = "get_icon"
     /\ appIcon = Some(IconRef)
     /\ HasEntry(zip, ResourcesArsc)
     /\ \E i \in 1..Len(resTable) : resTable[i].density <= ret.arg) =>
        /\ ret.exc = "none"
        /\ \E i \in 1..Len(resTable) :
            /\ IsBestCandidate(resTable, i, ret.arg)
            /\ ret.val = Some(resTable[i].file)

---------------------------------------------------------------------------
(* C13: a resolution miss is returned as an empty or null value and not    *)
(* raised: get_icon does so when the icon's resource id has no candidate,  *)
(* when no candidate has a density <= max_dpi, and when the manifest       *)
(* declares no icon.                                                       *)
C13_IconMissIsNull ==
    [][(/\ ret'.op = "get_icon"
        /\ Falsy(app_icon)
        /\ HasEntry(zip, ResourcesArsc)
        /\ \/ appIcon = None
           \/ appIcon = Some(OtherRef)
           \/ /\ appIcon = Some(IconRef)
              /\ \A i \in 1..Len(resTable) : resTable[i].density > ret'.arg) =>
            /\ ret'.exc = "none"
            /\ Falsy(ret'.val)]_vars

---------------------------------------------------------------------------
(* The icon of the main activity: get_icon on a manifest whose application *)
(* element has no icon.                                                    *)

QualifiedNames == {<<".", "a">>, <<"c", ".", "d">>}

ActivityIcons == {<<"j">>, <<"k">>}

IconElements ==
    [tag : {"activity", "activity-alias"},
     name : {Some(n) : n \in QualifiedNames},
     enabled : {None},
     actions : {{ACTION_MAIN}},
     categories : {{}, {CATEGORY_LAUNCHER}},
     icon : {None} \cup {Some(f) : f \in ActivityIcons}]

InitIconFallback ==
    /\ appIcon \in {None, Some(IconFile)}
    /\ elems \in SeqsUpTo(IconElements, MaxElems)
    /\ hashOrder \in SetOrders({Some(n) : n \in QualifiedNames})
    /\ package = <<"p">>
    /\ zip = <<>>
    /\ resTable = <<>>
    /\ targetSdkVersion = None
    /\ minSdkVersion = None
    /\ permissions = <<>>
    /\ uses_permissions = <<>>
    /\ app_icon = Some(<<>>)
    /\ NoStrings
    /\ NoIconDocument
    /\ ParsedManifest
    /\ UnsignedFile
    /\ OpenArchive
    /\ NoRunningCall
    /\ ret = NoCall

NextIconFallback == GetIcon \/ GetMainActivity

SpecIconFallback == InitIconFallback /\ [][NextIconFallback]_vars

---------------------------------------------------------------------------
(* C12: get_icon reads application/@icon and, when the application has no  *)
(* icon, the icon of the activity element that get_main_activity()         *)
(* designates, also when that activity is declared with a relative name    *)
(* that get_main_activity() returns package-qualified.                     *)
C12_IconOfMainActivity ==
    ret.op = "get_icon" =>
        LET main == get_main_activity(package, elems, hashOrder)
            designated == {i \in 1..Len(elems) :
                            /\ elems[i].tag = "activity"
                            /\ main.val = Some(format_value(package, Val(elems[i].name)))
                            /\ elems[i].icon # None}
        IN  /\ appIcon # None => (ret.exc = "none" /\ ret.val = appIcon)
            /\ (appIcon = None /\ designated # {}) =>
                    /\ ret.exc = "none"
                    /\ \E i \in designated : ret.val = elems[i].icon

---------------------------------------------------------------------------
(* extract_icon: the parts it hands to build_icon.                         *)

StartsWith(s, prefix) ==
    Len(s) >= Len(prefix) /\ SubSeq(s, 1, Len(prefix)) = prefix

EndsWith(s, suffix) ==
    Len(s) >= Len(suffix) /\ SubSeq(s, Len(s) - Len(suffix) + 1, Len(s)) = suffix

\* str.replace(old, new), old not empty: the occurrences from the left, not overlapping.
RECURSIVE Replace(_, _, _)
Replace(s, old, new) ==
    IF Len(s) < Len(old) THEN s
    ELSE IF StartsWith(s, old)
    THEN new \o Replace(SubSeq(s, Len(old) + 1, Len(s)), old, new)
    ELSE <<Head(s)>> \o Replace(Tail(s), old, new)

DotXml == <<".", "x", "m", "l">>

AndroidPrefix == <<"a", "n", "d", "r", "o", "i", "d", ":">>

\* The candidates of the resource table in the archives extract_icon is run on.
MaxParts == 2

\* The default of get_icon's max_dpi parameter.
DefaultMaxDpi == 65536

XmlIcon == <<"v", ".", "x", "m", "l">>

ColorPart == <<"#", "f">>

\* The values extract_icon reads in the icon document, or the error of reading them.
icon_parts(doc) ==
    IF doc.tag = "adaptative-icon"
    THEN IF doc.background = None \/ doc.foreground = None
         THEN [exc |-> "AttributeError", parts |-> <<>>]
         ELSE IF Val(doc.background) = <<>> \/ Val(doc.foreground) = <<>>
         THEN [exc |-> "IndexError", parts |-> <<>>]
         ELSE [exc |-> "none",
               parts |-> <<Replace(Val(doc.background)[1], AndroidPrefix, <<>>),
                           Replace(Val(doc.foreground)[1], AndroidPrefix, <<>>)>>]
    ELSE IF doc.attrib = <<>>
    THEN [exc |-> "IndexError", parts |-> <<>>]
    ELSE [exc |-> "none", parts |-> <<doc.attrib[1]>>]

\* One part of the document: a reference is resolved with extract_icon's max_dpi.
resolve_part(z, table, p, max_dpi) ==
    IF StartsWith(p, <<"@">>)
    THEN resolve_icon_resource(z, table, Tail(p), max_dpi)
    ELSE [exc |-> "none", val |-> Some(p)]

\* The end of extract_icon: the empty parts are dropped and the file of every part
\* that is no colour is read; the names of the parts go to build_icon.
open_parts(g, z, parts) ==
    LET kept == SelectSeq(parts, LAMBDA p : ~ Falsy(p))
    IN  IF \E i \in 1..Len(kept) :
                ~ StartsWith(Val(kept[i]), <<"#">>) /\ ~ HasEntry(z, Val(kept[i]))
        THEN [app_icon |-> g.app_icon, exc |-> "FileNotPresent", val |-> None]
        ELSE [app_icon |-> g.app_icon, exc |-> "none",
              val |-> Some([i \in 1..Len(kept) |-> Val(kept[i])])]

\* The parts of the document once resolved: the first error of a resolution is raised.
resolved_parts(g, z, resolved) ==
    IF \E i \in 1..Len(resolved) : resolved[i].exc # "none"
    THEN [app_icon |-> g.app_icon,
          exc |-> resolved[CHOOSE i \in 1..Len(resolved) :
                                /\ resolved[i].exc # "none"
                                /\ \A j \in 1..(i - 1) : resolved[j].exc = "none"].exc,
          val |-> None]
    ELSE open_parts(g, z, [i \in 1..Len(resolved) |-> resolved[i].val])

\* The branch of an XML icon, read being what icon_parts gives for its document.
document_parts(g, z, table, read, max_dpi) ==
    IF read.exc # "none"
    THEN [app_icon |-> g.app_icon, exc |-> read.exc, val |-> None]
    ELSE resolved_parts(g, z, [i \in 1..Len(read.parts) |->
                                    resolve_part(z, table, read.parts[i], max_dpi)])

\* extract_icon after its call of get_icon, g being what that call gave.
parts_of_icon(g, z, table, doc, max_dpi) ==
    IF g.exc # "none" THEN [app_icon |-> g.app_icon, exc |-> g.exc, val |-> None]
    ELSE IF ~ EndsWith(Val(g.val), DotXml) THEN open_parts(g, z, <<g.val>>)
    ELSE IF ~ HasEntry(z, Val(g.val))
    THEN [app_icon |-> g.app_icon, exc |-> "FileNotPresent", val |-> None]
    ELSE document_parts(g, z, table, icon_parts(doc), max_dpi)

\* extract_icon(filename, max_dpi) up to its call of build_icon: the field app_icon
\* it leaves, and the names of the parts it hands over, or the error raised.
extract_icon(cached, entry, pkg, xml, icon, order, z, table, doc, max_dpi) ==
    parts_of_icon(get_icon(cached, entry, pkg, xml, icon, order, z, table, DefaultMaxDpi),
                  z, table, doc, max_dpi)

ExtractIcon ==
    \E max_dpi \in MaxDpis :
        LET r == extract_icon(app_icon, xmlEntry, package, elems, appIcon, hashOrder,
                              zip, resTable, iconDoc, max_dpi)
        IN  /\ app_icon' = r.app_icon
            /\ ret' = IF r.exc # "none"
                      THEN Raised("extract_icon", max_dpi, r.exc)
                      ELSE Returned("extract_icon", max_dpi, r.val)
            /\ UNCHANGED <<resStrings, iconDoc, xmlEntry, valid_apk, apkFile, signed_v2,
                           v2_blocks>>
            /\ UNCHANGED <<zip, package, elems, appIcon, targetSdkVersion, minSdkVersion,
                           permissions, uses_permissions, resTable, hashOrder, hasZip, frame>>

IconDocuments ==
    [tag : {"adaptive-icon", "adaptative-icon", "bitmap"},
     attrib : {<<>>, <<IconRef>>},
     background : {None, Some(<<ColorPart>>), Some(<<IconRef>>)},
     foreground : {Some(<<>>), Some(<<IconRef>>)}]

InitExtract ==
    /\ \/ appIcon = Some(IconRef) /\ NoIconDocument
       \/ appIcon = Some(XmlIcon) /\ iconDoc \in IconDocuments
    /\ resTable \in SeqsUpTo(Candidates, MaxParts)
    /\ zip = <<[name |-> ResourcesArsc, data |-> <<>>],
               [name |-> <<"d">>, data |-> <<0>>],
               [name |-> <<"h">>, data |-> <<1>>],
               [name |-> <<"x">>, data |-> <<0>>],
               [name |-> XmlIcon, data |-> <<1>>]>>
    /\ package = <<"p">>
    /\ elems = <<>>
    /\ hashOrder = <<>>
    /\ targetSdkVersion = None
    /\ minSdkVersion = None
    /\ permissions = <<>>
    /\ uses_permissions = <<>>
    /\ app_icon = Some(<<>>)
    /\ NoStrings
    /\ ParsedManifest
    /\ UnsignedFile
    /\ OpenArchive
    /\ NoRunningCall
    /\ ret = NoCall

NextExtract == ExtractIcon

SpecExtract == InitExtract /\ [][NextExtract]_vars

---------------------------------------------------------------------------
(* C14: extract_icon(filename, max_dpi) completes without error and builds *)
(* the icon only from resources selected with the caller's max_dpi: the    *)
(* application icon it starts from is the candidate of largest density     *)
(* <= max_dpi.                                                             *)
C14_ExtractHonoursMaxDpi ==
    [][(/\ ret'.op = "extract_icon"
        /\ Falsy(app_icon)
        /\ appIcon = Some(IconRef)
        /\ \E i \in 1..Len(resTable) : resTable[i].density <= ret'.arg) =>
            /\ ret'.exc = "none"
            /\ \E i \in 1..Len(resTable) :
                /\ IsBestCandidate(resTable, i, ret'.arg)
                /\ ret'.val = Some(<<resTable[i].file>>)]_vars

---------------------------------------------------------------------------
(* The bytes of the file (self.__raw), as a ZIP writer and an APK signer   *)
(* lay them out: the leading bytes, the entries, the APK Signing Block,    *)
(* the central directory and the End of Central Directory record.  Bytes   *)
(* are the integers 0..255 and numbers are little-endian.                   *)

MaxSigners == 2
MaxCerts == 2

Min(a, b) == IF a < b THEN a ELSE b

Max(a, b) == IF a > b THEN a ELSE b

\* The printable ASCII characters of codes 32 to 95 and of codes 97 to 126.
AsciiLow ==
    <<" ", "!", "\"", "#", "$", "%", "&", "'", "(", ")",
      "*", "+", ",", "-", ".", "/", "0", "1", "2", "3",
      "4", "5", "6", "7", "8", "9", ":", ";", "<", "=",
      ">", "?", "@", "A", "B", "C", "D", "E", "F", "G",
      "H", "I", "J", "K", "L", "M", "N", "O", "P", "Q",
      "R", "S", "T", "U", "V", "W", "X", "Y", "Z", "[",
      "\\", "]", "^", "_">>

AsciiHigh ==
    <<"a", "b", "c", "d", "e", "f", "g", "h", "i", "j",
      "k", "l", "m", "n", "o", "p", "q", "r", "s", "t",
      "u", "v", "w", "x", "y", "z", "{", "|", "}", "~">>

\* ord(c)
Ord(c) ==
    IF \E i \in 1..Len(AsciiLow) : AsciiLow[i] = c
    THEN 31 + CHOOSE i \in 1..Len(AsciiLow) : AsciiLow[i] = c
    ELSE 96 + CHOOSE i \in 1..Len(AsciiHigh) : AsciiHigh[i] = c

Bytes(s) == [i \in 1..Len(s) |-> Ord(s[i])]

\* struct.pack of an unsigned number on width bytes.
RECURSIVE LE(_, _)
LE(n, width) == IF width = 0 THEN <<>> ELSE <<n % 256>> \o LE(n \div 256, width - 1)

\* struct.unpack of an unsigned number ("<H", "<I", "<Q").
RECURSIVE ULE(_)
ULE(b) == IF b = <<>> THEN 0 ELSE Head(b) + 256 * ULE(Tail(b))

\* struct.unpack("<Q") or ("<I") of a size or length, which is only compared with
\* offsets of the file: the value itself when it fits three bytes, and one bound
\* standing for every larger value (below 2^63), past the end of any file of the
\* model.
PastAnyFile == 256 * 256 * 256

ULen(b) ==
    IF \A i \in 4..Len(b) : b[i] = 0 THEN ULE(SubSeq(b, 1, Min(3, Len(b)))) ELSE PastAnyFile

RECURSIVE Concat(_)
Concat(ss) == IF ss = <<>> THEN <<>> ELSE Head(ss) \o Concat(Tail(ss))

PK_END_OF_CENTRAL_DIR == <<80, 75, 5, 6>>

PK_CENTRAL_DIR == <<80, 75, 1, 2>>

PK_LOCAL_FILE == <<80, 75, 3, 4>>

\* b"APK Sig Block 42"
APK_SIG_MAGIC == <<65, 80, 75, 32, 83, 105, 103, 32, 66, 108, 111, 99, 107, 32, 52, 50>>

\* 0x7109871a
APK_SIG_KEY_SIGNATURE == 1896449818

\* 0x42726577, the id of the padding pair that signers add.
PaddingKey == ULE(<<119, 101, 114, 66>>)

\* A sequence prefixed with its length on four bytes.
LengthPrefixed(b) == LE(Len(b), 4) \o b

\* The bytes of a signer that are skipped: digests, attributes, signatures, public key.
SkippedBytes == <<1, 2>>

SignerBytes(signer) ==
    LET certs == Concat([i \in 1..Len(signer) |-> LengthPrefixed(signer[i])])
        signed_data == LengthPrefixed(SkippedBytes) \o LengthPrefixed(certs)
                       \o LengthPrefixed(SkippedBytes)
    IN  LengthPrefixed(LengthPrefixed(signed_data) \o LengthPrefixed(SkippedBytes)
                       \o LengthPrefixed(SkippedBytes))

\* The value of a pair: the length-prefixed sequence of its signers.
PairValue(signers) ==
    LengthPrefixed(Concat([i \in 1..Len(signers) |-> SignerBytes(signers[i])]))

PairBytes(pair) ==
    LET value == PairValue(pair.signers)
    IN  LE(Len(value) + 4, 8) \o LE(pair.key, 4) \o value

SigningBlock(pairs) ==
    LET body == Concat([i \in 1..Len(pairs) |-> PairBytes(pairs[i])])
        size_of_block == Len(body) + 24
    IN  LE(size_of_block, 8) \o body \o LE(size_of_block, 8) \o APK_SIG_MAGIC

\* A stored entry with its local header; the checksum field is that of empty data.
LocalEntry(e) ==
    PK_LOCAL_FILE \o LE(20, 2) \o LE(0, 2) \o LE(0, 2) \o LE(0, 4) \o LE(0, 4)
    \o LE(Len(e.data), 4) \o LE(Len(e.data), 4) \o LE(Len(e.name), 2) \o LE(0, 2)
    \o Bytes(e.name) \o e.data

CentralHeader(e, offset) ==
    PK_CENTRAL_DIR \o LE(20, 2) \o LE(20, 2) \o LE(0, 2) \o LE(0, 2) \o LE(0, 4)
    \o LE(0, 4) \o LE(Len(e.data), 4) \o LE(Len(e.data), 4) \o LE(Len(e.name), 2)
    \o LE(0, 2) \o LE(0, 2) \o LE(0, 2) \o LE(0, 2) \o LE(0, 4) \o LE(offset, 4)
    \o Bytes(e.name)

\* The offset of the local header of entry i.
RECURSIVE LocalOffset(_, _, _)
LocalOffset(z, file, i) ==
    IF i = 1 THEN Len(file.prefix)
    ELSE LocalOffset(z, file, i - 1) + Len(LocalEntry(z[i - 1]))

raw(z, file) ==
    LET locals == file.prefix \o Concat([i \in 1..Len(z) |-> LocalEntry(z[i])])
        block == file.block
        central == Concat([i \in 1..Len(z) |-> CentralHeader(z[i], LocalOffset(z, file, i))])
    IN  locals \o block \o central
        \o PK_END_OF_CENTRAL_DIR \o LE(0, 2) \o LE(0, 2) \o LE(Len(z), 2) \o LE(Len(z), 2)
        \o LE(Len(central), 4) \o LE(Len(locals) + Len(block), 4)
        \o LE(Len(file.comment), 2) \o file.comment

---------------------------------------------------------------------------
(* is_signed_v2 and get_certificates_der_v2, reading those bytes.          *)

\* BytesIO.read(n) at position p: what is left when fewer than n bytes are, all of
\* it when n is negative.
Read(b, p, n) ==
    IF n < 0 THEN SubSeq(b, p + 1, Len(b)) ELSE SubSeq(b, p + 1, Min(p + n, Len(b)))

\* The backward search of the End of Central Directory signature from position p:
\* the offset where it is found, -1 when position 0 is passed without finding it.
RECURSIVE ScanEndOfCentralDir(_, _)
ScanEndOfCentralDir(b, p) ==
    IF p <= 0 THEN -1
    ELSE IF Read(b, p - 1, 4) = PK_END_OF_CENTRAL_DIR THEN p - 1
    ELSE ScanEndOfCentralDir(b, p - 1)

\* The loop that stores the block's pairs, from position p.
RECURSIVE ReadBlocks(_, _, _, _)
ReadBlocks(b, p, end_offset, blocks) ==
    IF p >= end_offset - 24 THEN [exc |-> "none", blocks |-> blocks]
    ELSE LET head == Read(b, p, 12)
             size == ULen(SubSeq(head, 1, 8))
             key == ULE(SubSeq(head, 9, 12))
             value == Read(b, p + 12, size - 4)
         IN  IF Len(head) < 12 THEN [exc |-> "struct.error", blocks |-> blocks]
             ELSE ReadBlocks(b, p + 12 + Len(value), end_offset, (key :> value) @@ blocks)

\* A slip is_signed_v2 could make: not reading the block before the central directory.
is_signed_v2_unread(b, cached, blocks) ==
    [signed_v2 |-> Some(FALSE), v2_blocks |-> blocks, exc |-> "none", val |-> Some(FALSE)]

\* is_signed_v2(): the fields _is_signed_v2 and _v2_blocks it leaves, and what it
\* returns or raises.  A relative seek before offset 0 leaves the position at 0.
\* The two sizes of block are compared as their eight bytes.
is_signed_v2(b, cached, blocks) ==
    LET start == Max(Max(Len(b) - 1, 0) - 20, 0)
        eocd == ScanEndOfCentralDir(b, start)
        fields == Read(b, eocd + 4, 16)
        this_disk == ULE(SubSeq(fields, 1, 2))
        disk_central == ULE(SubSeq(fields, 3, 4))
        offset_central == ULE(SubSeq(fields, 13, 16))
        r == Read(b, offset_central, 4)
        end_offset == offset_central
        before == Max(end_offset - 24, 0)
        tail == Read(b, before, 24)
        size_of_block == ULen(SubSeq(tail, 1, 8))
        magic == SubSeq(tail, 9, 24)
        block_start == Max(before + 24 - (size_of_block + 8), 0)
        size_of_block_start == Read(b, block_start, 8)
        stored == ReadBlocks(b, block_start + 8, end_offset, blocks)
        result(flag, bl) == [signed_v2 |-> flag, v2_blocks |-> bl, exc |-> "none", val |-> flag]
        raised(flag, bl, exc) == [signed_v2 |-> flag, v2_blocks |-> bl, exc |-> exc, val |-> None]
    IN  IF cached = Some(TRUE) THEN result(cached, blocks)
        ELSE IF eocd < 0 THEN result(cached, blocks)
        ELSE IF Len(fields) < 16 THEN raised(cached, blocks, "struct.error")
        ELSE IF this_disk # 0 \/ disk_central # 0 THEN raised(cached, blocks, "AssertionError")
        ELSE IF offset_central = 0 THEN result(cached, blocks)
        ELSE IF Len(r) < 4 THEN raised(cached, blocks, "struct.error")
        ELSE IF r # PK_CENTRAL_DIR THEN raised(cached, blocks, "AssertionError")
        ELSE IF Len(tail) < 24 THEN raised(cached, blocks, "struct.error")
        ELSE IF magic # APK_SIG_MAGIC THEN result(Some(FALSE), blocks)
        ELSE IF Len(size_of_block_start) < 8 THEN raised(Some(FALSE), blocks, "struct.error")
        ELSE IF size_of_block_start # SubSeq(tail, 1, 8)
        THEN raised(Some(FALSE), blocks, "AssertionError")
        ELSE IF stored.exc # "none" THEN raised(Some(FALSE), stored.blocks, stored.exc)
        ELSE result(Some(APK_SIG_KEY_SIGNATURE \in DOMAIN stored.blocks), stored.blocks)

\* unpack("<I", block.read(4)) at position p.
U32(b, p) == [ok |-> Len(Read(b, p, 4)) = 4, v |-> ULen(Read(b, p, 4))]

\* The loop over one signer's certificates, from position p up to stop.
RECURSIVE ReadCerts(_, _, _, _)
ReadCerts(b, p, stop, certificates) ==
    IF p >= stop THEN [exc |-> "none", pos |-> p, certificates |-> certificates]
    ELSE LET len_cert == U32(b, p)
             cert == Read(b, p + 4, len_cert.v)
         IN  IF ~ len_cert.ok
             THEN [exc |-> "struct.error", pos |-> p, certificates |-> certificates]
             ELSE ReadCerts(b, p + 4 + Len(cert), stop, Append(certificates, cert))

\* A slip the certificate loop could make: stopping after a signer's first certificate.
RECURSIVE ReadSignersFirst(_, _, _)
ReadSignersFirst(b, p, certificates) ==
    IF p >= Len(b) THEN [exc |-> "none", certificates |-> certificates]
    ELSE LET size_signer == U32(b, p)
             len_digests == U32(b, p + 8)
             len_certs == U32(b, p + 12 + len_digests.v)
             start_certs == p + 16 + len_digests.v
             len_cert == U32(b, start_certs)
         IN  ReadSignersFirst(b, p + 4 + size_signer.v,
                              IF len_certs.v = 0 THEN certificates
                              ELSE Append(certificates, Read(b, start_certs + 4, len_cert.v)))

\* The loop over the signers, from position p.
RECURSIVE ReadSigners(_, _, _)
ReadSigners(b, p, certificates) ==
    IF p >= Len(b) THEN [exc |-> "none", certificates |-> certificates]
    ELSE LET size_signer == U32(b, p)
             len_signed_data == U32(b, p + 4)
             len_digests == U32(b, p + 8)
             len_certs == U32(b, p + 12 + len_digests.v)
             start_certs == p + 16 + len_digests.v
             certs == ReadCerts(b, start_certs, start_certs + len_certs.v, certificates)
             len_attr == U32(b, certs.pos)
             len_sigs == U32(b, certs.pos + 4 + len_attr.v)
             len_publickey == U32(b, certs.pos + 8 + len_attr.v + len_sigs.v)
             failed(c) == [exc |-> "struct.error", certificates |-> c]
         IN  IF ~ size_signer.ok \/ ~ len_signed_data.ok \/ ~ len_digests.ok
             THEN failed(certificates)
             ELSE IF ~ len_certs.ok THEN failed(certificates)
             ELSE IF certs.exc # "none" THEN failed(certs.certificates)
             ELSE IF ~ len_attr.ok THEN failed(certs.certificates)
             ELSE IF ~ len_sigs.ok THEN failed(certs.certificates)
             ELSE IF ~ len_publickey.ok THEN failed(certs.certificates)
             ELSE ReadSigners(b, certs.pos + 12 + len_attr.v + len_sigs.v + len_publickey.v,
                              certs.certificates)

\* get_certificates_der_v2(): the fields is_signed_v2 leaves, and the list returned.
get_certificates_der_v2(b, cached, blocks) ==
    LET signed == is_signed_v2(b, cached, blocks)
        block_bytes == signed.v2_blocks[APK_SIG_KEY_SIGNATURE]
        size_sequence == U32(block_bytes, 0)
        read == ReadSigners(block_bytes, 4, <<>>)
        with(exc, val) == [signed_v2 |-> signed.signed_v2, v2_blocks |-> signed.v2_blocks,
                           exc |-> exc, val |-> val]
    IN  IF signed.exc # "none" THEN with(signed.exc, None)
        ELSE IF signed.val # Some(TRUE) THEN with("none", Some(<<>>))
        ELSE IF ~ size_sequence.ok THEN with("struct.error", None)
        ELSE IF size_sequence.v + 4 # Len(block_bytes) THEN with("AssertionError", None)
        ELSE IF read.exc # "none" THEN with(read.exc, None)
        ELSE with("none", Some(read.certificates))

IsSignedV2 ==
    LET r == is_signed_v2(raw(zip, apkFile), signed_v2, v2_blocks)
    IN  /\ signed_v2' = r.signed_v2
        /\ v2_blocks' = r.v2_blocks
        /\ ret' = IF r.exc # "none"
                  THEN Raised("is_signed_v2", None, r.exc)
                  ELSE Returned("is_signed_v2", None, r.val)
        /\ UNCHANGED <<zip, package, elems, appIcon, targetSdkVersion, minSdkVersion,
                       permissions, uses_permissions, resTable, app_icon, resStrings,
                       iconDoc, xmlEntry, valid_apk, apkFile, hashOrder, hasZip, frame>>

GetCertificatesDerV2 ==
    LET r == get_certificates_der_v2(raw(zip, apkFile), signed_v2, v2_blocks)
    IN  /\ signed_v2' = r.signed_v2
        /\ v2_blocks' = r.v2_blocks
        /\ ret' = IF r.exc # "none"
                  THEN Raised("get_certificates_der_v2", None, r.exc)
                  ELSE Returned("get_certificates_der_v2", None, r.val)
        /\ UNCHANGED <<zip, package, elems, appIcon, targetSdkVersion, minSdkVersion,
                       permissions, uses_permissions, resTable, app_icon, resStrings,
                       iconDoc, xmlEntry, valid_apk, apkFile, hashOrder, hasZip, frame>>

CertBytes == {<<48>>, <<48, 1>>}

Signers == SeqsUpTo(SeqsUpTo(CertBytes, MaxCerts), MaxSigners)

SignaturePairs == {[key |-> APK_SIG_KEY_SIGNATURE, signers |-> s] : s \in Signers}

PaddingPair == [key |-> PaddingKey, signers |-> <<>>]

\* The pairs of a signing block: at most one signature pair, with or without padding.
PairLists ==
    {<<>>, <<PaddingPair>>}
    \cup {<<p>> : p \in SignaturePairs}
    \cup {<<PaddingPair, p>> : p \in SignaturePairs}
    \cup {<<p, PaddingPair>> : p \in SignaturePairs}

\* Leading bytes: none, or four bytes that belong to no entry.
Prefixes == {<<>>, <<0, 0, 0, 0>>}

\* A file as a signer leaves it: no bytes between the entries and the central
\* directory, or the signing block of its pairs.
SignedFile(prefix, pairs) ==
    [prefix |-> prefix, pairs |-> pairs,
     block |-> IF pairs = None THEN <<>> ELSE SigningBlock(Val(pairs)),
     comment |-> <<>>]

\* An archive without entries has no signing block: signers sign archives that
\* hold at least the manifest.
InitSigning ==
    /\ \/ /\ zip = <<>>
          /\ apkFile \in {SignedFile(p, None) : p \in Prefixes}
       \/ /\ zip = <<[name |-> <<"a">>, data |-> <<>>]>>
          /\ apkFile \in {SignedFile(p, q) : p \in Prefixes,
                                             q \in {None} \cup {Some(l) : l \in PairLists}}
    /\ signed_v2 = None
    /\ v2_blocks = <<>>
    /\ package = <<"p">>
    /\ elems = <<>>
    /\ appIcon = None
    /\ hashOrder = <<>>
    /\ resTable = <<>>
    /\ targetSdkVersion = None
    /\ minSdkVersion = None
    /\ permissions = <<>>
    /\ uses_permissions = <<>>
    /\ app_icon = Some(<<>>)
    /\ NoStrings
    /\ NoIconDocument
    /\ ParsedManifest
    /\ OpenArchive
    /\ NoRunningCall
    /\ ret = NoCall

NextSigning == IsSignedV2 \/ GetCertificatesDerV2

SpecSigning == InitSigning /\ [][NextSigning]_vars

\* The pairs of the file's signing block that carry the signature key.
SignaturePairsOf(file) ==
    IF file.pairs = None THEN {}
    ELSE {i \in 1..Len(Val(file.pairs)) : Val(file.pairs)[i].key = APK_SIG_KEY_SIGNATURE}

---------------------------------------------------------------------------
(* C15: for an archive without APK Signing Block is_signed_v2() returns    *)
(* the boolean false and raises no error, and get_certificates_der_v2()    *)
(* returns the empty list, also when the central directory starts at       *)
(* offset 0 or near the start of the file.                                 *)
C15_UnsignedIsFalse ==
    apkFile.pairs = None =>
        /\ ret.op = "is_signed_v2" => (ret.exc = "none" /\ ret.val = Some(FALSE))
        /\ ret.op = "get_certificates_der_v2" => (ret.exc = "none" /\ ret.val = Some(<<>>))

---------------------------------------------------------------------------
(* C16: get_certificates_der_v2() returns every certificate of every       *)
(* signer of the v2 block, each once, signers in block order and the       *)
(* certificates of a signer in their order in the block.                   *)
C16_AllCertificatesInOrder ==
    (ret.op = "get_certificates_der_v2" /\ SignaturePairsOf(apkFile) # {}) =>
        /\ ret.exc = "none"
        /\ \A i \in SignaturePairsOf(apkFile) :
            ret.val = Some(Concat(Val(apkFile.pairs)[i].signers))

\* Three certificates of two signers were returned, the padding pair coming first.
C16_Witness ==
    /\ ret.op = "get_certificates_der_v2"
    /\ ret.exc = "none"
    /\ ret.val = Some(<<<<48, 1>>, <<48>>, <<48, 1>>>>)
    /\ apkFile.pairs = Some(<<PaddingPair,
                              [key |-> APK_SIG_KEY_SIGNATURE,
                               signers |-> <<(<<<<48, 1>>, <<48>>>>), (<<<<48, 1>>>>)>>]>>)

---------------------------------------------------------------------------
(* C17, as stated: for every archive that contains a signing block (the    *)
(* magic is present before the central directory)                          *)
(* get_certificates_der_v2() is non-empty.                                 *)
C17_BlockGivesCertificates ==
    (ret.op = "get_certificates_der_v2" /\ apkFile.pairs # None) =>
        /\ ret.exc = "none"
        /\ ret.val # Some(<<>>)

(* C17, amended: for every archive whose signing block holds a pair of key *)
(* 0x7109871a in which some signer has a certificate,                      *)
(* get_certificates_der_v2() is non-empty.                                 *)
C17_SignatureGivesCertificates ==
    (/\ ret.op = "get_certificates_der_v2"
     /\ \E i \in SignaturePairsOf(apkFile) :
            \E j \in 1..Len(Val(apkFile.pairs)[i].signers) :
                Val(apkFile.pairs)[i].signers[j] # <<>>) =>
        /\ ret.exc = "none"
        /\ Len(Val(ret.val)) > 0

\* One certificate was returned for a block whose first signer has none.
C17_Witness ==
    /\ ret.op = "get_certificates_der_v2"
    /\ ret.exc = "none"
    /\ Len(Val(ret.val)) = 1
    /\ \E i \in SignaturePairsOf(apkFile) :
        /\ Len(Val(apkFile.pairs)[i].signers) = 2
        /\ Val(apkFile.pairs)[i].signers[1] = <<>>

---------------------------------------------------------------------------
(* _get_res_string_value: the attributes of the declared permissions.      *)

MaxPackages == 2

AtString == <<"@", "s", "t", "r", "i", "n", "g", "/">>

\* str(value): the text of an attribute, "None" for an attribute that is absent.
str(o) == IF o = None THEN <<"N", "o", "n", "e">> ELSE Val(o)

\* ARSCParser.get_packages_names(): the packages of the table, in its order.
get_packages_names(table) == [i \in 1..Len(table) |-> i]

\* ARSCParser.get_string(package_name, key): the pair (key, value), None without the key.
get_string(table, package_name, key) ==
    IF key \in DOMAIN table[package_name]
    THEN Some(<<key, table[package_name][key]>>)
    ELSE None

\* The lookup loop: the value of the first package that has the key.
RECURSIVE FirstString(_, _, _, _)
FirstString(table, names, string_key, string_value) ==
    IF names = <<>> THEN string_value
    ELSE LET extracted_values == get_string(table, Head(names), string_key)
         IN  IF extracted_values # None THEN Val(extracted_values)[2]
             ELSE FirstString(table, Tail(names), string_key, string_value)

get_res_string_value(z, table, string) ==
    IF ~ StartsWith(string, AtString)
    THEN Returned("_get_res_string_value", string, Some(string))
    ELSE IF ~ HasEntry(z, ResourcesArsc)
    THEN Raised("_get_res_string_value", string, "AttributeError")
    ELSE Returned("_get_res_string_value", string,
                  Some(FirstString(table, get_packages_names(table),
                                   SubSeq(string, 10, Len(string)), <<>>)))

StringKeys == {<<"a", "b">>, <<"b">>}

StringValues == {<<"v">>, <<"w">>}

StringPackages == UNION {[keys -> StringValues] : keys \in SUBSET StringKeys}

\* What a permission element may carry in an attribute.
PermissionAttributes ==
    {None, Some(<<"x">>), Some(<<"@", "s">>), Some(AtString)}
    \cup {Some(AtString \o k) : k \in StringKeys \cup {<<"c">>}}

\* One attribute of a <permission> element, as _apk_analysis resolves it.
GetResStringValue ==
    \E attribute \in PermissionAttributes :
        /\ ret' = get_res_string_value(zip, resStrings, str(attribute))
        /\ UNCHANGED apkFields

InitStrings ==
    /\ \/ /\ zip = <<[name |-> ResourcesArsc, data |-> <<>>]>>
          /\ resStrings \in SeqsUpTo(StringPackages, MaxPackages)
       \/ /\ zip = <<>>
          /\ resStrings = <<>>
    /\ package = <<"p">>
    /\ elems = <<>>
    /\ appIcon = None
    /\ hashOrder = <<>>
    /\ resTable = <<>>
    /\ targetSdkVersion = None
    /\ minSdkVersion = None
    /\ permissions = <<>>
    /\ uses_permissions = <<>>
    /\ app_icon = Some(<<>>)
    /\ NoIconDocument
    /\ ParsedManifest
    /\ UnsignedFile
    /\ OpenArchive
    /\ NoRunningCall
    /\ ret = NoCall

NextStrings == GetResStringValue

SpecStrings == InitStrings /\ [][NextStrings]_vars

\* The packages of the table that have the key.
PackagesWith(table, key) == {i \in 1..Len(table) : key \in DOMAIN table[i]}

---------------------------------------------------------------------------
(* C18: an attribute @string/KEY of a declared permission is resolved by   *)
(* looking up exactly KEY, the text after "@string/", and taking the value *)
(* of the first package that has it; without such a package, or without    *)
(* resources.arsc, the value is the empty string and no error is raised;   *)
(* any other value is kept unchanged.                                      *)
C18_StringResolvedByKey ==
    ret.op = "_get_res_string_value" =>
        LET KEY == SubSeq(ret.arg, Len(AtString) + 1, Len(ret.arg))
            having == PackagesWith(resStrings, KEY)
        IN  /\ ret.exc = "none"
            /\ IF ~ StartsWith(ret.arg, AtString) THEN ret.val = Some(ret.arg)
               ELSE IF having = {} THEN ret.val = Some(<<>>)
               ELSE \E i \in having :
                        /\ \A j \in having : i <= j
                        /\ ret.val = Some(resStrings[i][KEY])

---------------------------------------------------------------------------
(* The facade on a manifest that is absent, unparsed or parsed.            *)

AndroidManifest ==
    <<"A", "n", "d", "r", "o", "i", "d", "M", "a", "n", "i", "f", "e", "s", "t",
      ".", "x", "m", "l">>

get_services(pkg, xml) == get_elements(pkg, xml, "service")

get_receivers(pkg, xml) == get_elements(pkg, xml, "receiver")

get_providers(pkg, xml) == get_elements(pkg, xml, "provider")

GetServices ==
    /\ ret' = OnManifest(xmlEntry, "get_services",
                         Returned("get_services", None, get_services(package, elems)))
    /\ UNCHANGED apkFields

GetReceivers ==
    /\ ret' = OnManifest(xmlEntry, "get_receivers",
                         Returned("get_receivers", None, get_receivers(package, elems)))
    /\ UNCHANGED apkFields

GetProviders ==
    /\ ret' = OnManifest(xmlEntry, "get_providers",
                         Returned("get_providers", None, get_providers(package, elems)))
    /\ UNCHANGED apkFields

IsValidAPK ==
    /\ ret' = Returned("is_valid_APK", None, valid_apk)
    /\ UNCHANGED apkFields

ComponentElements ==
    [tag : {"activity", "service", "receiver", "provider"},
     name : {Some(n) : n \in ActivityNames},
     enabled : {None},
     actions : {{}, {ACTION_MAIN}},
     categories : {{CATEGORY_LAUNCHER}},
     icon : {None}]

\* _apk_analysis: without manifest entry self.xml stays empty; an entry that does
\* not parse leaves self.xml[i] None, the package empty and valid_apk False.
InitAnalysis ==
    /\ \/ /\ xmlEntry = "absent"
          /\ zip = <<>>
          /\ valid_apk = FALSE
          /\ package = <<>>
          /\ elems = <<>>
       \/ /\ xmlEntry = "null"
          /\ zip \in {<<[name |-> AndroidManifest, data |-> d]>> : d \in EntryData}
          /\ valid_apk = FALSE
          /\ package = <<>>
          /\ elems = <<>>
       \/ /\ xmlEntry = "tree"
          /\ zip = <<[name |-> AndroidManifest, data |-> <<1>>]>>
          /\ valid_apk = TRUE
          /\ package = <<"p">>
          /\ elems \in SeqsUpTo(ComponentElements, MaxElems)
    /\ hashOrder \in SetOrders({Some(n) : n \in ActivityNames})
    /\ appIcon = None
    /\ targetSdkVersion = None
    /\ minSdkVersion = None
    /\ permissions = <<>>
    /\ uses_permissions = <<>>
    /\ resTable = <<>>
    /\ app_icon = Some(<<>>)
    /\ NoStrings
    /\ NoIconDocument
    /\ UnsignedFile
    /\ OpenArchive
    /\ NoRunningCall
    /\ ret = NoCall

NextAnalysis ==
    \/ GetMainActivity
    \/ GetActivities
    \/ GetServices
    \/ GetReceivers
    \/ GetProviders
    \/ IsValidAPK

SpecAnalysis == InitAnalysis /\ [][NextAnalysis]_vars

---------------------------------------------------------------------------
(* C19: when AndroidManifest.xml is present but cannot be parsed,          *)
(* get_main_activity() returns null, get_activities(), get_services(),     *)
(* get_receivers() and get_providers() return empty lists and              *)
(* is_valid_APK() returns false.                                           *)
C19_UnparsedManifest ==
    xmlEntry = "null" =>
        /\ ret.op = "get_main_activity" => (ret.exc = "none" /\ ret.val = None)
        /\ ret.op \in {"get_activities", "get_services", "get_receivers", "get_providers"}
            => (ret.exc = "none" /\ ret.val = <<>>)
        /\ ret.op = "is_valid_APK" => (ret.exc = "none" /\ ret.val = FALSE)

---------------------------------------------------------------------------
(* vd2svg (src/apkparser/vd2png.py): the attributes of the svg root made   *)
(* from the attributes of a vector drawable's root.                        *)

remove_dp(x) == Replace(Replace(x, <<"d", "p">>, <<>>), <<"d", "i", "p">>, <<>>)

\* repl_attr_name(el, old_attr, value_transform=remove_dp, default=...), with no
\* new_attr: the attribute afterwards, v being the attribute before.
repl_attr_name(v, default) ==
    IF v # None THEN Some(remove_dp(Val(v)))
    ELSE IF ~ Falsy(default) THEN default
    ELSE None

\* a.pop(name, default)
Pop(v, default) == IF v # None THEN Val(v) ELSE default

FourEighty == <<"4", "8", "0">>

\* "0 0 {} {}".format(first, second)
ViewBoxFormat(first, second) == <<"0", " ", "0", " ">> \o first \o <<" ">> \o second

vd2svg(attrib) ==
    LET h == Pop(attrib.viewportHeight, FourEighty)
        w == Pop(attrib.viewportWidth, FourEighty)
    IN  [viewBox |-> ViewBoxFormat(h, w),
         height |-> repl_attr_name(attrib.height, Some(FourEighty \o <<"p", "x">>)),
         width |-> repl_attr_name(attrib.width, Some(FourEighty \o <<"p", "x">>))]

ViewportValues == {None, Some(<<"2", "4">>), Some(<<"4", "8">>)}

SizeValues ==
    {None, Some(<<>>), Some(<<"2", "4", "d", "p">>), Some(<<"4", "8", "d", "i", "p">>),
     Some(<<"9", "6">>)}

VectorRoots ==
    [viewportWidth : ViewportValues, viewportHeight : ViewportValues,
     width : SizeValues, height : SizeValues]

Vd2Svg ==
    \E attrib \in VectorRoots :
        /\ ret' = Returned("vd2svg", attrib, vd2svg(attrib))
        /\ UNCHANGED apkFields

InitVector ==
    /\ zip = <<>>
    /\ package = <<"p">>
    /\ elems = <<>>
    /\ appIcon = None
    /\ hashOrder = <<>>
    /\ resTable = <<>>
    /\ targetSdkVersion = None
    /\ minSdkVersion = None
    /\ permissions = <<>>
    /\ uses_permissions = <<>>
    /\ app_icon = Some(<<>>)
    /\ NoStrings
    /\ NoIconDocument
    /\ ParsedManifest
    /\ UnsignedFile
    /\ OpenArchive
    /\ NoRunningCall
    /\ ret = NoCall

NextVector == Vd2Svg

SpecVector == InitVector /\ [][NextVector]_vars

\* A size of the input with its unit removed.
WithoutUnit(size) ==
    IF EndsWith(size, <<"d", "i", "p">>) THEN SubSeq(size, 1, Len(size) - 3)
    ELSE IF EndsWith(size, <<"d", "p">>) THEN SubSeq(size, 1, Len(size) - 2)
    ELSE size

---------------------------------------------------------------------------
(* C20: the svg root vd2svg produces has the viewBox "0 0 W H", W being    *)
(* the input's viewportWidth and H its viewportHeight, and the width and   *)
(* height of the input with "dp" or "dip" removed, "480px" when absent.    *)
C20_ViewBoxWidthHeight ==
    ret.op = "vd2svg" =>
        LET W == IF ret.arg.viewportWidth = None THEN FourEighty
                 ELSE Val(ret.arg.viewportWidth)
            H == IF ret.arg.viewportHeight = None THEN FourEighty
                 ELSE Val(ret.arg.viewportHeight)
            size(v) == IF v = None THEN Some(<<"4", "8", "0", "p", "x">>)
                       ELSE Some(WithoutUnit(Val(v)))
        IN  /\ ret.val.viewBox = <<"0", " ", "0", " ">> \o W \o <<" ">> \o H
            /\ ret.val.width = size(ret.arg.width)
            /\ ret.val.height = size(ret.arg.height)

---------------------------------------------------------------------------
(* Colours turned into fills: split_argb and its callers conv_path and     *)
(* conv_solid (src/apkparser/vd2png.py), layer_from_color                  *)
(* (src/apkparser/build_icon.py).  An opacity is kept as the number n of   *)
(* n/255, or as the text of the attribute it was copied from.              *)

OfAlpha(n) == [num |-> n, text |-> <<>>]

OfText(t) == [num |-> -1, text |-> t]

\* split_argb(argb): (opacity, colour); "return 1, argb" is the opacity 255/255.
split_argb(argb) ==
    IF Len(argb) > 7
    THEN IF HexParses(SubSeq(argb, 2, 3))
         THEN [exc |-> "none", a |-> OfAlpha(HexOf(SubSeq(argb, 2, 3))),
               rgb |-> <<"#">> \o SubSeq(argb, 4, Len(argb))]
         ELSE [exc |-> "ValueError", a |-> OfAlpha(0), rgb |-> <<>>]
    ELSE [exc |-> "none", a |-> OfAlpha(255), rgb |-> argb]

\* The fill and fill-opacity attributes conv_path leaves, None for an absent one:
\* the fillColor is split, then a fillAlpha attribute replaces the opacity.
conv_path(fillColor, fillAlpha) ==
    LET split == split_argb(Val(fillColor))
        renamed(opacity) == IF fillAlpha # None THEN Some(OfText(Val(fillAlpha))) ELSE opacity
    IN  IF Falsy(fillColor)
        THEN [exc |-> "none", fill |-> None, opacity |-> renamed(None)]
        ELSE IF StartsWith(Val(fillColor), <<"#">>)
        THEN IF split.exc # "none" THEN [exc |-> split.exc, fill |-> None, opacity |-> None]
             ELSE [exc |-> "none", fill |-> Some(split.rgb), opacity |-> renamed(Some(split.a))]
        ELSE IF StartsWith(Val(fillColor), <<"@">>)
        THEN [exc |-> "none", fill |-> None, opacity |-> renamed(None)]
        ELSE [exc |-> "ValueError", fill |-> None, opacity |-> None]

\* The fill and fill-opacity attributes conv_solid leaves.
conv_solid(color) ==
    LET split == split_argb(Val(color))
    IN  IF Falsy(color) THEN [exc |-> "none", fill |-> None, opacity |-> None]
        ELSE IF split.exc # "none" THEN [exc |-> split.exc, fill |-> None, opacity |-> None]
        ELSE [exc |-> "none", fill |-> Some(split.rgb), opacity |-> Some(split.a)]

\* layer_from_color(color): the colour given to Image.new and the alpha given to putalpha.
layer_from_color(color) ==
    IF Len(color) > 6
    THEN IF HexParses(SubSeq(color, 2, 3))
         THEN [exc |-> "none", fill |-> Some(<<"#">> \o SubSeq(color, 4, Len(color))),
               opacity |-> Some(OfAlpha(HexOf(SubSeq(color, 2, 3))))]
         ELSE [exc |-> "ValueError", fill |-> None, opacity |-> None]
    ELSE [exc |-> "none", fill |-> Some(color), opacity |-> Some(OfAlpha(255))]

Channels == {<<"0", "0">>, <<"8", "0">>, <<"F", "F">>}

\* The colours #RRGGBB and #AARRGGBB.
Colours ==
    {<<"#">> \o r \o g \o b : r \in Channels, g \in Channels, b \in Channels}
    \cup {<<"#">> \o a \o r \o g \o b :
            a \in Channels, r \in Channels, g \in Channels, b \in Channels}

FillValues == {None, Some(<<"@", "1">>), Some(<<"x">>)} \cup {Some(c) : c \in Colours}

Outcome(op, arg, r) ==
    IF r.exc # "none" THEN Raised(op, arg, r.exc)
    ELSE Returned(op, arg, [fill |-> r.fill, opacity |-> r.opacity])

ConvPath ==
    \E fillColor \in FillValues, fillAlpha \in {None, Some(<<"0", ".", "5">>)} :
        /\ ret' = Outcome("conv_path", [fillColor |-> fillColor, fillAlpha |-> fillAlpha],
                          conv_path(fillColor, fillAlpha))
        /\ UNCHANGED apkFields

ConvSolid ==
    \E color \in FillValues :
        /\ ret' = Outcome("conv_solid", [fillColor |-> color, fillAlpha |-> None],
                          conv_solid(color))
        /\ UNCHANGED apkFields

LayerFromColor ==
    \E color \in Colours :
        /\ ret' = Outcome("layer_from_color", [fillColor |-> Some(color), fillAlpha |-> None],
                          layer_from_color(color))
        /\ UNCHANGED apkFields

NextColour == ConvPath \/ ConvSolid \/ LayerFromColor

SpecColour == InitVector /\ [][NextColour]_vars

\* The fill and the opacity a colour stands for.
FillOf(c) == IF Len(c) = 9 THEN <<"#">> \o SubSeq(c, 4, 9) ELSE c

AlphaOf(c) == IF Len(c) = 9 THEN HexOf(SubSeq(c, 2, 3)) ELSE 255

---------------------------------------------------------------------------
(* C21: wherever a colour becomes a fill, #AARRGGBB gives the fill #RRGGBB *)
(* with opacity AA/255 and #RRGGBB gives the same #RRGGBB fully opaque:    *)
(* for the fillColor of a path (no fillAlpha given), for a solid colour    *)
(* and for a layer built by layer_from_color.                              *)
C21_ColourSplitConsistent ==
    (/\ ret.op \in {"conv_path", "conv_solid", "layer_from_color"}
     /\ ret.arg.fillColor # None
     /\ Val(ret.arg.fillColor) \in Colours
     /\ ret.arg.fillAlpha = None) =>
        /\ ret.exc = "none"
        /\ ret.val.fill = Some(FillOf(Val(ret.arg.fillColor)))
        /\ ret.val.opacity = Some(OfAlpha(AlphaOf(Val(ret.arg.fillColor))))


---------------------------------------------------------------------------
(* is_signed_v2 on files whose signing block is not what a signer writes:   *)
(* size fields that disagree or point outside the file, another magic,      *)
(* leading bytes that look like a pair.                                     *)

\* A size of block larger than the small files of the model.
ClaimedSize == 100

\* The pairs of the blocks: none, padding, or one signature of one certificate.
BlockPairs ==
    {<<>>, <<PaddingPair>>,
     <<[key |-> APK_SIG_KEY_SIGNATURE, signers |-> <<<<(<<48>>)>>>>]>>}

PairsBody(pairs) == Concat([i \in 1..Len(pairs) |-> PairBytes(pairs[i])])

\* The sizes a block can announce: its own, one more, or ClaimedSize.
AnnouncedSizes(pairs) ==
    {Len(PairsBody(pairs)) + 24, Len(PairsBody(pairs)) + 25, ClaimedSize}

\* b"APK Sig Block 43"
OtherMagic == SubSeq(APK_SIG_MAGIC, 1, 15) \o <<51>>

\* The bytes between the entries and the central directory: an optional size, the
\* pairs, a size and a magic.
BlockBytes ==
    UNION {{first \o PairsBody(pairs) \o LE(last, 8) \o magic :
                first \in {<<>>} \cup {LE(s, 8) : s \in AnnouncedSizes(pairs)},
                last \in AnnouncedSizes(pairs),
                magic \in {APK_SIG_MAGIC, OtherMagic}} : pairs \in BlockPairs}

\* Leading bytes: none, or a size followed by the twelve bytes that start a pair.
LeadingBytes ==
    {<<>>}
    \cup {LE(ClaimedSize, 8) \o LE(n, 8) \o LE(k, 4) :
              n \in {0, 4}, k \in {APK_SIG_KEY_SIGNATURE, PaddingKey}}

InitBlocks ==
    /\ zip = <<[name |-> <<"a">>, data |-> <<>>]>>
    /\ apkFile \in {[prefix |-> p, pairs |-> None, block |-> b, comment |-> <<>>] :
                        p \in LeadingBytes, b \in BlockBytes}
    /\ signed_v2 = None
    /\ v2_blocks = <<>>
    /\ package = <<"p">>
    /\ elems = <<>>
    /\ appIcon = None
    /\ hashOrder = <<>>
    /\ resTable = <<>>
    /\ targetSdkVersion = None
    /\ minSdkVersion = None
    /\ permissions = <<>>
    /\ uses_permissions = <<>>
    /\ app_icon = Some(<<>>)
    /\ NoStrings
    /\ NoIconDocument
    /\ ParsedManifest
    /\ OpenArchive
    /\ NoRunningCall
    /\ ret = NoCall

SpecBlocks == InitBlocks /\ [][NextSigning]_vars

\* The offset of the central directory in the file, from its layout.
CentralOffset(z, file) ==
    Len(file.prefix) + Len(Concat([i \in 1..Len(z) |-> LocalEntry(z[i])])) + Len(file.block)

\* The 16 bytes that end at offset ocd are the magic.
MagicBefore(b, ocd) == ocd >= 16 /\ SubSeq(b, ocd - 15, ocd) = APK_SIG_MAGIC

\* The size of block read at ocd - 24.
SizeBefore(b, ocd) == ULen(SubSeq(b, ocd - 23, ocd - 16))

\* The size read at ocd - 8 - size_of_block is the size read at ocd - 24.
SizesAgree(b, ocd) ==
    /\ ocd >= 24
    /\ ocd - 8 - SizeBefore(b, ocd) >= 0
    /\ SubSeq(b, ocd - 8 - SizeBefore(b, ocd) + 1, ocd - SizeBefore(b, ocd))
           = SubSeq(b, ocd - 23, ocd - 16)

\* The keys of the pairs (pair_size:u64, key:u32, pair_size - 4 value bytes) from
\* offset p up to offset stop.
RECURSIVE PairKeys(_, _, _)
PairKeys(b, p, stop) ==
    IF p >= stop \/ p + 12 > Len(b) THEN {}
    ELSE LET pair_size == ULen(SubSeq(b, p + 1, p + 8))
         IN  {ULE(SubSeq(b, p + 9, p + 12))}
             \cup (IF pair_size < 4 THEN {} ELSE PairKeys(b, p + 8 + pair_size, stop))

\* C22: is_signed_v2() returns true only if the 16 bytes that end at the offset of
\* the central directory are the magic, the size read at that offset - 8 -
\* size_of_block is the size read at that offset - 24, and the pairs between the
\* two sizes include the key 0x7109871a.
C22_TrueOnlyUnderProtocol ==
    (ret.op = "is_signed_v2" /\ ret.exc = "none" /\ ret.val = Some(TRUE)) =>
        LET b == raw(zip, apkFile)
            ocd == CentralOffset(zip, apkFile)
        IN  /\ MagicBefore(b, ocd)
            /\ SizesAgree(b, ocd)
            /\ APK_SIG_KEY_SIGNATURE
                   \in PairKeys(b, ocd - SizeBefore(b, ocd), ocd - 24)

---------------------------------------------------------------------------
(* get_certificate_der: the certificate of a PKCS#7 signature file.         *)

\* The length octets of a DER encoding.
DerLength(n) ==
    IF n < 128 THEN <<n>>
    ELSE IF n < 256 THEN <<129, n>>
    ELSE <<130, n \div 256, n % 256>>

\* encode(): the DER encoding of an element, from its tag and its content.
encode(element) ==
    <<element.tag>> \o DerLength(Len(element.content)) \o element.content

\* The number that big-endian length octets stand for.
RECURSIVE BigEndian(_)
BigEndian(b) ==
    IF b = <<>> THEN 0 ELSE 256 * BigEndian(SubSeq(b, 1, Len(b) - 1)) + b[Len(b)]

\* The element encoded at position p (from 0) of b, and the position that follows it.
ElementAt(b, p) ==
    LET l == b[p + 2]
        octets == IF l >= 128 THEN l - 128 ELSE 0
        length == IF l >= 128 THEN BigEndian(SubSeq(b, p + 3, p + 2 + octets)) ELSE l
        start == p + 2 + octets
    IN  [tag |-> b[p + 1], content |-> SubSeq(b, start + 1, start + length),
         next |-> start + length]

\* The elements encoded one after the other in b.
RECURSIVE Components(_)
Components(b) ==
    IF b = <<>> THEN <<>>
    ELSE <<[tag |-> ElementAt(b, 0).tag, content |-> ElementAt(b, 0).content]>>
         \o Components(SubSeq(b, ElementAt(b, 0).next + 1, Len(b)))

ContextTag == 160

\* decode(): the components of an element.  An explicitly tagged element (context
\* tag 0xA0 around one element) is decoded as the element it wraps.
ComponentsOf(element) ==
    LET inner == Components(element.content)
    IN  IF element.tag = ContextTag /\ Len(inner) = 1
        THEN Components(inner[1].content)
        ELSE inner

\* message[1][3] of the decoded payload.
CertificatesOf(pkcs7message) ==
    ComponentsOf(ComponentsOf(ElementAt(pkcs7message, 0))[2])[4]

\* A slip the stripping could make: dropping two bytes whatever the length's form.
strip_identifier_two(cert) ==
    IF cert[1] = ContextTag THEN SubSeq(cert, 3, Len(cert)) ELSE cert

\* Lines 917 to 926: the identifier and length octets removed when the tag is 0xA0.
strip_identifier(cert) ==
    LET tag == cert[1]
        l == cert[2]
        skip == IF l >= 128 THEN 2 + (l % 128) ELSE 2
    IN  IF tag = ContextTag THEN SubSeq(cert, skip + 1, Len(cert)) ELSE cert

get_certificate_der(z, filename) ==
    LET pkcs7message == get_file(z, filename)
        cert == encode(CertificatesOf(pkcs7message.val))
    IN  IF pkcs7message.exc # "none"
        THEN Raised("get_certificate_der", filename, pkcs7message.exc)
        ELSE Returned("get_certificate_der", filename, Some(strip_identifier(cert)))

SignatureName == <<"S">>

GetCertificateDer ==
    \E filename \in {SignatureName, AbsentName} :
        /\ ret' = get_certificate_der(zip, filename)
        /\ UNCHANGED apkFields

Zeros(n) == [i \in 1..n |-> 0]

\* The sizes of the certificate bodies: the encodings of the element at [1][3] have
\* short lengths (up to 127), one length octet (128 to 255) and two (256 and more).
BodySizes == {0, 1, 125, 126, 253, 254}

\* The tags of the element at [1][3]: context 0, SEQUENCE, SET.
ElementTags == {ContextTag, 48, 49}

Integer1 == <<2, 1, 1>>

EmptySet == <<49, 0>>

\* The SignedData of the payload with the given element as its fourth component.
SignedData(first, element) ==
    encode([tag |-> 48, content |-> first \o EmptySet \o <<48, 0>> \o element \o EmptySet])

Payloads ==
    {encode([tag |-> 48,
             content |-> <<6, 1, 42>>
                         \o (IF wrapped
                             THEN encode([tag |-> ContextTag,
                                          content |-> SignedData(first, encode(
                                              [tag |-> t,
                                               content |-> encode([tag |-> 48,
                                                                    content |-> Zeros(n)])]))])
                             ELSE SignedData(first, encode(
                                      [tag |-> t,
                                       content |-> encode([tag |-> 48,
                                                            content |-> Zeros(n)])])))]) :
        wrapped \in BOOLEAN, first \in {Integer1, EmptySet}, t \in ElementTags,
        n \in BodySizes}

InitCertificate ==
    /\ zip \in {<<[name |-> SignatureName, data |-> m]>> : m \in Payloads}
    /\ package = <<>>
    /\ elems = <<>>
    /\ appIcon = None
    /\ targetSdkVersion = None
    /\ minSdkVersion = None
    /\ permissions = <<>>
    /\ uses_permissions = <<>>
    /\ resTable = <<>>
    /\ app_icon = Some(<<>>)
    /\ hashOrder = <<>>
    /\ NoStrings
    /\ NoIconDocument
    /\ ParsedManifest
    /\ UnsignedFile
    /\ OpenArchive
    /\ NoRunningCall
    /\ ret = NoCall

NextCertificate == GetCertificateDer

SpecCertificate == InitCertificate /\ [][NextCertificate]_vars

\* The re-encoded element at path [1][3] of the payload stored under SignatureName.
ReencodedElement == encode(CertificatesOf(zip[1].data))

\* C23 as stated: when the re-encoded element begins with tag 0xA0 exactly two bytes
\* are removed and the rest is returned, with short-form and with long-form
\* lengths; with another tag the encoding is returned unchanged.
C23_TwoBytesRemoved ==
    (ret.op = "get_certificate_der" /\ ret.exc = "none") =>
        ret.val = Some(IF ReencodedElement[1] = ContextTag
                       THEN SubSeq(ReencodedElement, 3, Len(ReencodedElement))
                       ELSE ReencodedElement)

\* C23, amended: when the re-encoded element begins with tag 0xA0 its whole
\* identifier-and-length header is removed (two bytes with a short-form length,
\* two bytes and the further length bytes with a long-form length), so what is
\* returned is the content of the element; with another tag the encoding is
\* returned unchanged.
C23_HeaderRemoved ==
    (ret.op = "get_certificate_der" /\ ret.exc = "none") =>
        IF ReencodedElement[1] = ContextTag
        THEN /\ ReencodedElement
                    = <<ContextTag>> \o DerLength(Len(Val(ret.val))) \o Val(ret.val)
             /\ ReencodedElement[2] < 128 =>
                    Len(Val(ret.val)) = Len(ReencodedElement) - 2
        ELSE ret.val = Some(ReencodedElement)

\* A certificate returned from an element of tag 0xA0 with a long-form length.
C23_Witness ==
    /\ ret.op = "get_certificate_der"
    /\ ret.exc = "none"
    /\ ReencodedElement[1] = ContextTag
    /\ ReencodedElement[2] = 130
    /\ Len(Val(ret.val)) = Len(ReencodedElement) - 4

---------------------------------------------------------------------------
(* build_icon: the layers of an icon flattened into one image.              *)

MaxLayers == 3

\* An image: its size (width, height), its mode and what its pixels are made of.
Picture(size, mode, pixels) == [size |-> size, mode |-> mode, pixels |-> pixels]

\* Image.convert("RGBA")
ConvertRGBA(image) ==
    IF image.mode = "RGBA" THEN image
    ELSE Picture(image.size, "RGBA", <<"convert", image.pixels>>)

\* Image.resize(size)
Resize(image, size) == Picture(size, image.mode, <<"resize", image.pixels, size>>)

\* Image.alpha_composite(im1, im2): im2 over im1.
alpha_composite(im1, im2) == Picture(im1.size, "RGBA", <<"over", im1.pixels, im2.pixels>>)

\* The order of tuples that min() follows on sizes.
SizeBelow(s, t) == s[1] < t[1] \/ (s[1] = t[1] /\ s[2] < t[2])

\* min(layers, key=lambda x: x.size).size: the first layer no other is below.
MinSize(layers) ==
    layers[CHOOSE i \in 1..Len(layers) :
               /\ \A j \in 1..Len(layers) : ~ SizeBelow(layers[j].size, layers[i].size)
               /\ \A j \in 1..(i - 1) : layers[j].size # layers[i].size].size

\* The layer of a part: of a colour when its name starts with "#", else the image
\* that its content holds.
LayerOf(part) ==
    IF StartsWith(part.name, <<"#">>)
    THEN Picture(<<512, 512>>, "RGBA",
                 <<"color", Val(layer_from_color(part.name).fill),
                   Val(layer_from_color(part.name).opacity).num>>)
    ELSE part.content

\* Lines 41 to 44: the layers converted and brought to the size of the least one.
Resized(layers) ==
    LET converted == [i \in 1..Len(layers) |-> ConvertRGBA(layers[i])]
        min_size == MinSize(converted)
    IN  [i \in 1..Len(layers) |->
            IF converted[i].size = min_size THEN converted[i]
            ELSE Resize(converted[i], min_size)]

\* build_icon(parts, output_path): the image saved at output_path, or the exception.
build_icon(parts) ==
    LET layers == [i \in 1..Len(parts) |-> LayerOf(parts[i])]
    IN  IF \E i \in 1..Len(parts) :
               /\ StartsWith(parts[i].name, <<"#">>)
               /\ layer_from_color(parts[i].name).exc # "none"
        THEN Raised("build_icon", parts, "ValueError")
        ELSE IF Len(layers) = 1 THEN Returned("build_icon", parts, Some(layers[1]))
        ELSE IF Len(layers) = 0 THEN Raised("build_icon", parts, "ValueError")
        ELSE IF Len(layers) # 2 THEN Raised("build_icon", parts, "TypeError")
        ELSE Returned("build_icon", parts,
                      Some(alpha_composite(Resized(layers)[1], Resized(layers)[2])))

LayerSizes == {<<1, 1>>, <<1, 3>>, <<2, 1>>}

\* The parts of an icon: two colours with their alpha, and a bitmap of each size.
LayerParts ==
    {[name |-> c, content |-> <<>>] :
         c \in {<<"#", "F", "F", "0", "0", "0", "0", "0", "0">>,
                <<"#", "8", "0", "F", "F", "F", "F", "F", "F">>}}
    \cup {[name |-> <<"i", ".", "p", "n", "g">>, content |-> Picture(size, "RGB", size)] :
              size \in LayerSizes}

BuildIcon ==
    \E parts \in SeqsUpTo(LayerParts, MaxLayers) :
        /\ parts # <<>>
        /\ ret' = build_icon(parts)
        /\ UNCHANGED apkFields

NextCompose == BuildIcon

SpecCompose == InitVector /\ [][NextCompose]_vars

\* The layers composited in list order: each one over what the previous ones give.
RECURSIVE Flat(_)
Flat(layers) ==
    IF Len(layers) = 1 THEN layers[1]
    ELSE alpha_composite(Flat(SubSeq(layers, 1, Len(layers) - 1)), layers[Len(layers)])

\* The layers brought to the given size.
AtSize(layers, size) ==
    [i \in 1..Len(layers) |->
        IF ConvertRGBA(layers[i]).size = size THEN ConvertRGBA(layers[i])
        ELSE Resize(ConvertRGBA(layers[i]), size)]

\* The sizes of the layers that no layer is smaller than in both dimensions.
SmallestSizes(layers) ==
    {layers[i].size : i \in {k \in 1..Len(layers) :
        \A j \in 1..Len(layers) :
            ~ (/\ layers[j].size[1] <= layers[k].size[1]
               /\ layers[j].size[2] <= layers[k].size[2]
               /\ layers[j].size # layers[k].size)}}

\* C24: build_icon with n >= 2 layers saves the image that all n layers give when
\* composited in list order, each resized to the size of the smallest layer; with
\* one layer it saves that layer unchanged.
C24_AllLayersComposited ==
    ret.op = "build_icon" =>
        LET layers == [i \in 1..Len(ret.arg) |-> LayerOf(ret.arg[i])]
        IN  /\ ret.exc = "none"
            /\ IF Len(layers) = 1 THEN ret.val = Some(layers[1])
               ELSE \E size \in SmallestSizes(layers) :
                        ret.val = Some(Flat(AtSize(layers, size)))

---------------------------------------------------------------------------
(* __getstate__ and __setstate__: the object pickled and restored.          *)

\* __getstate__(): x is self.__dict__ itself, so the object loses what x loses.  The
\* fields of the object afterwards, the state returned, the exception raised.
getstate(has, entry) ==
    [xmlEntry |-> "str", hasZip |-> FALSE,
     exc |-> IF has THEN "none" ELSE "KeyError",
     val |-> IF has THEN Some([xmlEntry |-> "str"]) ELSE None]

\* __setstate__(state): the fields of state, and the archive opened again from __raw.
setstate(state) == [xmlEntry |-> state.xmlEntry, hasZip |-> TRUE]

GetState ==
    LET r == getstate(hasZip, xmlEntry)
    IN  /\ xmlEntry' = r.xmlEntry
        /\ hasZip' = r.hasZip
        /\ ret' = IF r.exc # "none" THEN Raised("__getstate__", None, r.exc)
                  ELSE Returned("__getstate__", None, r.val)
        /\ UNCHANGED <<zip, package, elems, appIcon, targetSdkVersion, minSdkVersion,
                       permissions, uses_permissions, resTable, app_icon, resStrings,
                       iconDoc, valid_apk, apkFile, signed_v2, v2_blocks, hashOrder, frame>>

\* The states that pickle hands to __setstate__: those __getstate__ returned.
PickledStates == {[xmlEntry |-> "str"]}

SetState ==
    \E state \in PickledStates :
        /\ xmlEntry' = setstate(state).xmlEntry
        /\ hasZip' = setstate(state).hasZip
        /\ ret' = Returned("__setstate__", Some(state), None)
        /\ UNCHANGED <<zip, package, elems, appIcon, targetSdkVersion, minSdkVersion,
                       permissions, uses_permissions, resTable, app_icon, resStrings,
                       iconDoc, valid_apk, apkFile, signed_v2, v2_blocks, hashOrder, frame>>

InitPickle ==
    /\ zip \in {<<>>} \cup {<<e>> : e \in Entries}
    /\ package = <<"p">>
    /\ elems \in {<<>>, <<[tag |-> "activity", name |-> Some(<<"A">>)]>>}
    /\ appIcon = None
    /\ targetSdkVersion = None
    /\ minSdkVersion = None
    /\ permissions = <<>>
    /\ uses_permissions = <<>>
    /\ resTable = <<>>
    /\ app_icon = Some(<<>>)
    /\ hashOrder = <<>>
    /\ NoStrings
    /\ NoIconDocument
    /\ ParsedManifest
    /\ UnsignedFile
    /\ OpenArchive
    /\ NoRunningCall
    /\ ret = NoCall

NextPickle == GetState \/ SetState \/ GetFile \/ GetFiles \/ GetActivities

SpecPickle == InitPickle /\ [][NextPickle]_vars

\* The object was restored by __setstate__: its manifest is the pickled string.
Restored == hasZip /\ xmlEntry = "str"

\* C25: pickling leaves the live object usable: whether or not __getstate__ has
\* been called on it, get_file, get_files and the manifest queries answer as the
\* archive and the manifest say; a restored object answers get_file likewise.
C25_UsableAfterPickling ==
    /\ ret.op = "get_file" => ret = get_file(zip, ret.arg)
    /\ (ret.op = "get_files" /\ ~ Restored) =>
            ret = Returned("get_files", None, namelist(zip))
    /\ (ret.op = "get_activities" /\ ~ Restored) =>
            ret = Returned("get_activities", None, get_activities(package, elems))

---------------------------------------------------------------------------
(* The loops of is_signed_v2 and get_certificates_der_v2, one iteration at  *)
(* a time: the search of the End of Central Directory, the pairs of the     *)
(* block, the signers and their certificates.                               *)

MaxComment == 2

\* A running call: where it is, the bytes of the stream it reads (f, then block),
\* the position in it, where the loop stops, where the signer began.
Running(pc, op, buf, pos, stop, from, certificates) ==
    [pc |-> pc, op |-> op, buf |-> buf, pos |-> pos, stop |-> stop, from |-> from,
     certificates |-> certificates]

\* What a step leaves: the running call, the field _is_signed_v2, and the outcome
\* of the call when the step ends it.
Goes(next, flag) == [frame |-> next, signed_v2 |-> flag, done |-> FALSE, ret |-> NoCall]

Ends(flag, outcome) == [frame |-> Idle, signed_v2 |-> flag, done |-> TRUE, ret |-> outcome]

\* is_signed_v2() has come to its return with the given value: the call ends, or
\* get_certificates_der_v2 goes on (lines 1114 to 1125) to its loop over the signers.
AfterSigned(op, flag, blocks) ==
    LET block_bytes == blocks[APK_SIG_KEY_SIGNATURE]
        size_sequence == U32(block_bytes, 0)
    IN  IF op = "is_signed_v2" THEN Ends(flag, Returned(op, None, flag))
        ELSE IF flag # Some(TRUE) THEN Ends(flag, Returned(op, None, Some(<<>>)))
        ELSE IF ~ size_sequence.ok THEN Ends(flag, Raised(op, None, "struct.error"))
        ELSE IF size_sequence.v + 4 # Len(block_bytes)
        THEN Ends(flag, Raised(op, None, "AssertionError"))
        ELSE Goes(Running("signers", op, block_bytes, 4, 0, 0, <<>>), flag)

\* Lines 1091 to 1097: the size at the start of the block, read at block_start.
AtBlockStart(b, end_offset, tail, block_start, op) ==
    IF Len(Read(b, block_start, 8)) < 8
    THEN Ends(Some(FALSE), Raised(op, None, "struct.error"))
    ELSE IF Read(b, block_start, 8) # SubSeq(tail, 1, 8)
    THEN Ends(Some(FALSE), Raised(op, None, "AssertionError"))
    ELSE Goes(Running("pairs", op, b, block_start + 8, end_offset, 0, <<>>), Some(FALSE))

\* Lines 1086 to 1091: the 24 bytes read before the central directory.
AtBlockEnd(b, end_offset, before, tail, op, blocks) ==
    IF Len(tail) < 24 THEN Ends(Some(FALSE), Raised(op, None, "struct.error"))
    ELSE IF SubSeq(tail, 9, 24) # APK_SIG_MAGIC THEN AfterSigned(op, Some(FALSE), blocks)
    ELSE AtBlockStart(b, end_offset, tail,
                      Max(before + 24 - (ULen(SubSeq(tail, 1, 8)) + 8), 0), op)

\* Lines 1078 to 1086: the central directory at its offset.
AtCentralDir(b, offset_central, op, cached, blocks) ==
    IF offset_central = 0 THEN AfterSigned(op, cached, blocks)
    ELSE IF Len(Read(b, offset_central, 4)) < 4
    THEN Ends(cached, Raised(op, None, "struct.error"))
    ELSE IF Read(b, offset_central, 4) # PK_CENTRAL_DIR
    THEN Ends(cached, Raised(op, None, "AssertionError"))
    ELSE IF Len(Read(b, Max(offset_central - 24, 0), 24)) < 24
    THEN Ends(cached, Raised(op, None, "struct.error"))
    ELSE AtBlockEnd(b, offset_central, Max(offset_central - 24, 0),
                    Read(b, Max(offset_central - 24, 0), 24), op, blocks)

\* Lines 1063 to 1076: the signature was found at offset eocd; the fields of the
\* End of Central Directory record.
EnterBlock(b, eocd, op, cached, blocks) ==
    IF Len(Read(b, eocd + 4, 16)) < 16 THEN Ends(cached, Raised(op, None, "struct.error"))
    ELSE IF \/ ULE(SubSeq(Read(b, eocd + 4, 16), 1, 2)) # 0
            \/ ULE(SubSeq(Read(b, eocd + 4, 16), 3, 4)) # 0
    THEN Ends(cached, Raised(op, None, "AssertionError"))
    ELSE AtCentralDir(b, ULE(SubSeq(Read(b, eocd + 4, 16), 13, 16)), op, cached, blocks)

\* A slip the search could make: reading four bytes without first stepping back.
scan_seek_stay(p) == (p + 4) - 4

\* Lines 1061, 1062 and 1077: one byte back, four bytes read, four bytes back.
scan_seek(p) == ((p - 1) + 4) - 4

\* One test of the search's while, and its body when the test holds.
scan_step(f, cached, blocks) ==
    LET r == Read(f.buf, f.pos - 1, 4)
    IN  IF f.pos <= 0 THEN AfterSigned(f.op, cached, blocks)
        ELSE IF Len(r) < 4 THEN Ends(cached, Raised(f.op, None, "struct.error"))
        ELSE IF r = PK_END_OF_CENTRAL_DIR
        THEN EnterBlock(f.buf, f.pos - 1, f.op, cached, blocks)
        ELSE Goes([f EXCEPT !.pos = scan_seek(f.pos)], cached)

\* A call starts: nothing to read when _is_signed_v2 is already true, else the
\* search starts 21 bytes before the end of f.
call(op, f, cached, blocks) ==
    IF cached = Some(TRUE) THEN AfterSigned(op, cached, blocks)
    ELSE Goes(Running("scan", op, f, Max(Max(Len(f) - 1, 0) - 20, 0), 0, 0, <<>>), cached)

Call ==
    /\ frame = Idle
    /\ \E op \in {"is_signed_v2", "get_certificates_der_v2"} :
        \E r \in {call(op, raw(zip, apkFile), signed_v2, v2_blocks)} :
            /\ frame' = r.frame
            /\ signed_v2' = r.signed_v2
            /\ ret' = IF r.done THEN r.ret ELSE [NoCall EXCEPT !.op = op]
    /\ UNCHANGED <<zip, package, elems, appIcon, targetSdkVersion, minSdkVersion,
                   permissions, uses_permissions, resTable, app_icon, resStrings,
                   iconDoc, xmlEntry, valid_apk, apkFile, v2_blocks, hashOrder, hasZip>>

ScanStep ==
    /\ frame.pc = "scan"
    /\ \E r \in {scan_step(frame, signed_v2, v2_blocks)} :
        /\ frame' = r.frame
        /\ signed_v2' = r.signed_v2
        /\ ret' = IF r.done THEN r.ret ELSE ret
    /\ UNCHANGED <<zip, package, elems, appIcon, targetSdkVersion, minSdkVersion,
                   permissions, uses_permissions, resTable, app_icon, resStrings,
                   iconDoc, xmlEntry, valid_apk, apkFile, v2_blocks, hashOrder, hasZip>>

\* The pairs read so far when the pair at the position is read as well (lines 1099
\* to 1101).
pair_read(f, blocks) ==
    IF f.pos < f.stop - 24 /\ Len(Read(f.buf, f.pos, 12)) = 12
    THEN (ULE(SubSeq(Read(f.buf, f.pos, 12), 9, 12))
              :> Read(f.buf, f.pos + 12, ULen(SubSeq(Read(f.buf, f.pos, 12), 1, 8)) - 4))
         @@ blocks
    ELSE blocks

\* One test of the while over the pairs (line 1098), and its body or what follows
\* the loop (lines 1103 to 1107).
pair_step(f, cached, blocks) ==
    IF f.pos >= f.stop - 24
    THEN AfterSigned(f.op, Some(APK_SIG_KEY_SIGNATURE \in DOMAIN blocks), blocks)
    ELSE IF Len(Read(f.buf, f.pos, 12)) < 12
    THEN Ends(cached, Raised(f.op, None, "struct.error"))
    ELSE Goes([f EXCEPT !.pos =
                   f.pos + 12
                   + Len(Read(f.buf, f.pos + 12,
                              ULen(SubSeq(Read(f.buf, f.pos, 12), 1, 8)) - 4))],
              cached)

PairStep ==
    /\ frame.pc = "pairs"
    /\ \E r \in {pair_step(frame, signed_v2, v2_blocks)} :
        /\ frame' = r.frame
        /\ signed_v2' = r.signed_v2
        /\ ret' = IF r.done THEN r.ret ELSE ret
    /\ v2_blocks' = pair_read(frame, v2_blocks)
    /\ UNCHANGED <<zip, package, elems, appIcon, targetSdkVersion, minSdkVersion,
                   permissions, uses_permissions, resTable, app_icon, resStrings,
                   iconDoc, xmlEntry, valid_apk, apkFile, hashOrder, hasZip>>

\* One test of the while over the signers (line 1125), and its body up to the loop
\* over the signer's certificates (lines 1126 to 1134).
signer_step(f) ==
    LET block_bytes == f.buf
        size_signer == U32(block_bytes, f.pos)
        len_signed_data == U32(block_bytes, f.pos + 4)
        len_digests == U32(block_bytes, f.pos + 8)
        len_certs == U32(block_bytes, f.pos + 12 + len_digests.v)
        start_certs == f.pos + 16 + len_digests.v
    IN  IF f.pos >= Len(block_bytes)
        THEN Ends(Some(TRUE), Returned(f.op, None, Some(f.certificates)))
        ELSE IF ~ size_signer.ok \/ ~ len_signed_data.ok \/ ~ len_digests.ok
        THEN Ends(Some(TRUE), Raised(f.op, None, "struct.error"))
        ELSE IF ~ len_certs.ok THEN Ends(Some(TRUE), Raised(f.op, None, "struct.error"))
        ELSE Goes(Running("certs", f.op, f.buf, start_certs, start_certs + len_certs.v,
                          f.pos, f.certificates), Some(TRUE))

\* One test of the while over the certificates (line 1135), and its body or what
\* follows the loop up to the end of the signer (lines 1141 to 1146).
cert_step(f) ==
    LET block_bytes == f.buf
        len_cert == U32(block_bytes, f.pos)
        cert == Read(block_bytes, f.pos + 4, len_cert.v)
        len_attr == U32(block_bytes, f.pos)
        len_sigs == U32(block_bytes, f.pos + 4 + len_attr.v)
        len_publickey == U32(block_bytes, f.pos + 8 + len_attr.v + len_sigs.v)
    IN  IF f.pos < f.stop
        THEN IF ~ len_cert.ok THEN Ends(Some(TRUE), Raised(f.op, None, "struct.error"))
             ELSE Goes([f EXCEPT !.pos = f.pos + 4 + Len(cert),
                                 !.certificates = Append(f.certificates, cert)], Some(TRUE))
        ELSE IF ~ len_attr.ok THEN Ends(Some(TRUE), Raised(f.op, None, "struct.error"))
        ELSE IF ~ len_sigs.ok THEN Ends(Some(TRUE), Raised(f.op, None, "struct.error"))
        ELSE IF ~ len_publickey.ok THEN Ends(Some(TRUE), Raised(f.op, None, "struct.error"))
        ELSE Goes(Running("signers", f.op, f.buf,
                          f.pos + 12 + len_attr.v + len_sigs.v + len_publickey.v, 0, 0,
                          f.certificates), Some(TRUE))

SignerStep ==
    /\ frame.pc = "signers"
    /\ \E r \in {signer_step(frame)} :
        /\ frame' = r.frame
        /\ ret' = IF r.done THEN r.ret ELSE ret
    /\ UNCHANGED <<zip, package, elems, appIcon, targetSdkVersion, minSdkVersion,
                   permissions, uses_permissions, resTable, app_icon, resStrings,
                   iconDoc, xmlEntry, valid_apk, apkFile, signed_v2, v2_blocks, hashOrder,
                   hasZip>>

CertStep ==
    /\ frame.pc = "certs"
    /\ \E r \in {cert_step(frame)} :
        /\ frame' = r.frame
        /\ ret' = IF r.done THEN r.ret ELSE ret
    /\ UNCHANGED <<zip, package, elems, appIcon, targetSdkVersion, minSdkVersion,
                   permissions, uses_permissions, resTable, app_icon, resStrings,
                   iconDoc, xmlEntry, valid_apk, apkFile, signed_v2, v2_blocks, hashOrder,
                   hasZip>>

\* A signer whose length fields are anything: those of its digests, of its
\* certificates and of its one certificate of one byte.
LooseSigner(len_digests, len_certs, len_cert) ==
    LE(0, 4) \o LE(0, 4) \o LE(len_digests, 4) \o SkippedBytes \o LE(len_certs, 4)
    \o LE(len_cert, 4) \o <<48>> \o LE(0, 4) \o LE(0, 4) \o LE(0, 4)

LooseSigners ==
    {LooseSigner(d, cs, c) : d \in {0, 2}, cs \in {0, 3, 5}, c \in {0, 1, 3}}

\* The values of the signature pair: no signer, one, or the same one twice.
LooseValues ==
    {LengthPrefixed(<<>>)}
    \cup {LengthPrefixed(s) : s \in LooseSigners}
    \cup {LengthPrefixed(s \o s) : s \in LooseSigners}

\* The signature pair with its size field right, and with a size field of 0, 3 or 4
\* before the value of no signer and before a value of two signers.
LoosePairs ==
    {LE(Len(value) + 4, 8) \o LE(APK_SIG_KEY_SIGNATURE, 4) \o value : value \in LooseValues}
    \cup {LE(size, 8) \o LE(APK_SIG_KEY_SIGNATURE, 4) \o value :
              size \in {0, 3, 4},
              value \in {LengthPrefixed(<<>>),
                         LengthPrefixed(LooseSigner(2, 5, 1) \o LooseSigner(2, 5, 1))}}

\* The blocks: the signature pair, after the padding pair or alone.
LooseBlocks ==
    {LE(Len(body) + 24, 8) \o body \o LE(Len(body) + 24, 8) \o APK_SIG_MAGIC :
         body \in LoosePairs \cup {PairBytes(PaddingPair) \o p : p \in LoosePairs}}

InitLoops ==
    /\ zip = <<[name |-> <<"a">>, data |-> <<>>]>>
    /\ apkFile \in {[prefix |-> <<>>, pairs |-> None, block |-> b, comment |-> Zeros(n)] :
                        b \in LooseBlocks, n \in {0, MaxComment}}
    /\ signed_v2 = None
    /\ v2_blocks = <<>>
    /\ package = <<"p">>
    /\ elems = <<>>
    /\ appIcon = None
    /\ hashOrder = <<>>
    /\ resTable = <<>>
    /\ targetSdkVersion = None
    /\ minSdkVersion = None
    /\ permissions = <<>>
    /\ uses_permissions = <<>>
    /\ app_icon = Some(<<>>)
    /\ NoStrings
    /\ NoIconDocument
    /\ ParsedManifest
    /\ OpenArchive
    /\ NoRunningCall
    /\ ret = NoCall

Step == ScanStep \/ PairStep \/ SignerStep \/ CertStep

NextLoops == Call \/ ScanStep \/ PairStep \/ SignerStep \/ CertStep

SpecLoops == InitLoops /\ [][NextLoops]_vars

\* A call that has started goes on running until it returns or raises.
SpecLoopsFair == SpecLoops /\ WF_vars(Step)

\* What the loops do with the read position from one iteration to the next.
LoopsAdvance ==
    /\ (frame.pc = "scan" /\ frame'.pc = "scan") =>
            frame'.pos < frame.pos /\ frame'.pos >= 0
    /\ (frame.pc = "pairs" /\ frame'.pc = "pairs") => frame'.pos >= frame.pos + 12
    /\ (frame.pc = "certs" /\ frame'.pc = "certs") => frame'.pos >= frame.pos + 4
    /\ (frame.pc = "certs" /\ frame'.pc = "signers") => frame'.pos >= frame.from + 4

\* C26: is_signed_v2() and get_certificates_der_v2() terminate, by returning or by
\* raising: each iteration of the backward search moves the position toward 0, each
\* iteration over the pairs advances it by 12 bytes at least, each iteration over
\* the signers and over the certificates by 4 bytes at least, whatever the size
\* fields hold.
C26_LoopsTerminate ==
    /\ [][LoopsAdvance]_vars
    /\ (frame.pc # "idle") ~> (frame.pc = "idle")

\* The loop over the certificates has read a certificate of length 0 and goes on.
C26_Witness ==
    /\ frame.pc = "certs"
    /\ frame.certificates # <<>>
    /\ frame.certificates[1] = <<>>
    /\ frame.pos < frame.stop

=============================================================================
